---- MODULE Spec2Model ----
(***************************************************************************)
(* A model of bin/build.js, the asset build of the puttputtplanet site.    *)
(*                                                                         *)
(* Three specifications share the module:                                  *)
(*   SpecConfig  the configuration resolver: updateConfiguration() up to   *)
(*               the point where runBuild() is called;                     *)
(*   Spec        the build itself: runBuild() and the three processors     *)
(*               (optimizeJS, optimizeJSLibs, handleImages) with every     *)
(*               asynchronous completion as one run-to-completion action,  *)
(*               for page manifests of up to MaxBundles bundles;           *)
(*   SpecShipped the same build with the empty page manifest of the        *)
(*               configuration literal.                                    *)
(* JavaScript values are written as strings ("true", "false", "undefined", *)
(* "null", a path), so that an object is a function from its own keys.     *)
(***************************************************************************)
EXTENDS Integers, Sequences, FiniteSets, TLC

VARIABLES
    \* ---- configuration resolver (build.js 36-75, 174-249, 667-676)
    cliFlags,        \* the flags given on the command line: own key -> value
    configFile,      \* the file at the --config path: [kind, data]
    configuration,   \* the module-level configuration object
    cfgPc,           \* where updateConfiguration's promise chain stands
    cfgData,         \* what loadConfigurationData resolved with
    cfgErrors,       \* the logError lines of the resolver
    buildStarted,    \* runBuild() has been called
    \* ---- the build (build.js 258-369, 453-665)
    pageManifest,    \* configuration.pageManifest: a sequence of file lists
    imageFiles,      \* what glob() returns: the files 1..imageFiles
    compressionStats,\* [totalFiles, totalBytesConsidered, totalBytesCompressed]
    promise,         \* the three promises given to Promise.all
    outcome,         \* what runBuild's then/catch has done
    summary,         \* the totals showStats printed
    errors,          \* the logError lines of the build
    crashed,         \* the process died: uncaught exception / unhandled rejection
    bundle,          \* per page bundle: state of its completeJSCompression
    jsWrites,        \* the writes of page bundles: <<bundle, output file>>
    libs,            \* optimizeJSLibs: position, pending stats, copies made,
                     \* libraries read into terserCode
    img,             \* the image batch: eachLimit's state, the local totals and
                     \* what the final callback added to compressionStats
    imgFile,         \* per image file: state of its per-file work
    processed        \* ghost: the files whose output has been produced

cfgVars == <<cliFlags, configFile, configuration, cfgPc, cfgData, cfgErrors, buildStarted>>

buildVars == <<pageManifest, imageFiles, compressionStats, promise, outcome, summary,
               errors, crashed, bundle, jsWrites, libs, img, imgFile, processed>>

\* ---- the destination of an image file (build.js 259-269, 327-337)
VARIABLES
    sourcePath,      \* configuration.imageSource, as a sequence of characters
    destinationPath, \* configuration.imageDestination
    relativePath,    \* the path of the file below the source root
    imageFile,       \* the path glob returns for it
    destinationFile, \* the destination computed for it
    pathPc           \* which of the two functions has computed it

pathVars == <<sourcePath, destinationPath, relativePath, imageFile, destinationFile, pathPc>>

\* ---- the destination tree of the image copy (build.js 326-369)
VARIABLES
    copyOrder,       \* the list glob returns: paths below the source root
    destDirs,        \* the directories at and below the image destination root
    destFiles,       \* the files below it: path -> contents
    copyRun,         \* 1 in the first run of the build, 2 in the second
    firstRun         \* the destination tree the first run left, and how it ended

copyVars == <<copyOrder, destDirs, destFiles, copyRun, firstRun>>

\* ---- deploy.js
VARIABLES
    deployArgs,      \* the options given on deploy's command line: option -> value
    deployFile,      \* the file at the --conf path: [kind, data]
    deployConfiguration, \* deploy.js's module-level configuration
    debug,           \* deploy.js's module-level debug
    rsyncFlags,      \* the flags handed to rsync, a sequence of characters
    buildInfoWritten,\* updateBuildInfoFile has rewritten public/build-info.json
    deployPc         \* where the script stands

deployVars == <<deployArgs, deployFile, deployConfiguration, debug, rsyncFlags,
                buildInfoWritten, deployPc>>

\* ---- the service queue of the Enginesis SDK (public/js/lib/enginesis.js)
VARIABLES
    isOnline,        \* enginesis.isOnline
    serviceQueue,    \* enginesis.serviceQueue: items [state_seq, state_status, fn]
    serviceQueueRestored, \* enginesis.serviceQueueRestored
    internalStateSeq,\* enginesis.internalStateSeq
    storedQueue,     \* localStorage[serviceQueueSaveKey]: [saved, queue]
    requests,        \* the fetches in flight
    sendPromises,    \* the promise of each sendRequest call, in the order of the calls
    restorePromise,  \* the promise of each restoreOnline call, in that order
    queueErrors,     \* the errors thrown out of a promise callback
    microtasks,      \* the promise callbacks that wait for the running task to end
    fetched,         \* the requests that have gone out: [state_seq, fn]
    offlineQueued,   \* the requests sendRequest queued offline: [state_seq, fn]
    initCalls,       \* how many times init has been called
    restoreTimers,   \* the timers of init that have not fired yet
    refreshToken,    \* what _getRefreshToken returns
    serverSession    \* the session as the server sees it: valid or expired

queueVars == <<isOnline, serviceQueue, serviceQueueRestored, internalStateSeq,
               storedQueue, requests, sendPromises, restorePromise, queueErrors,
               microtasks, fetched, offlineQueued, initCalls, restoreTimers,
               refreshToken, serverSession>>

\* ---- versionUp.js
VARIABLES
    versionUpdateTask, \* versionUp.js's module-level versionUpdateTask
    versionFiles,    \* the contents of the files of filesContainingVersion
    versionOriginals,\* their contents before the run
    nextVersion,     \* versionUp's nextVersion once computed, <<>> before
    versionPc,       \* where the first readFile of versionUp stands
    versionFilePc    \* where the read and the write of each listed file stand

versionVars == <<versionUpdateTask, versionFiles, versionOriginals, nextVersion,
                 versionPc, versionFilePc>>

auxVars == <<pathVars, copyVars, deployVars, queueVars, versionVars>>

vars == <<cfgVars, buildVars, auxVars>>

----------------------------------------------------------------------------
(* Bounds of the model *)

\* at most this many flags on the command line, and keys in the config file
MaxFlags == 2

\* at most this many files under the image source root
MaxFiles == 2

\* at most this many bundles in the page manifest
MaxBundles == 2

\* at most this many options on deploy's command line, and keys in its file
MaxArgs == 1

MaxKeys == 1

\* at most this many requests of the application in one session of the SDK
MaxRequests == 2

\* at most this many calls of restoreOnline, and of init
MaxRestores == 2

MaxInits == 2

\* at most this many SessionRefresh requests for expired tokens
MaxRefreshes == 1

\* os.cpus().length (build.js 26): the machine's, so a bound of the model
numberOfCPUs == 1

----------------------------------------------------------------------------
(* The configuration resolver *)

\* matchProperties' list (build.js 206)
configurableProperties ==
    {"imageDestination", "jsDestination", "dryrun", "exclude", "logfile",
     "optimizeImages", "imageSource", "jsSource", "verbose"}

\* yargs option types (build.js 102-165)
BooleanOptions == {"optimizeImages", "verbose", "dryrun"}

\* the configuration literal (build.js 36-75), the fields the resolver touches
DefaultConfiguration ==
    [dryrun |-> "true", isLoggingInfo |-> "true", isLoggingError |-> "true",
     logfile |-> "null", verbose |-> "true", optimizeImages |-> "true",
     jsSource |-> "./public/js", jsDestination |-> "./distrib/js",
     imageSource |-> "./public/images", imageDestination |-> "./distrib/images",
     exclude |-> "null"]

\* the values a flag of the command line can carry
CliValues ==
    [p \in configurableProperties |->
        IF p \in BooleanOptions THEN {"true", "false"} ELSE {"cli/path"}]

\* the values a key of the config file can carry
FileValues ==
    [p \in configurableProperties |->
        IF p \in BooleanOptions THEN {"true", "false"} ELSE {"file/path"}]

\* objects with at most MaxFlags own keys among the configurable properties
Objects(values) ==
    UNION { {f \in [D -> {"true", "false", "cli/path", "file/path"}] :
                \A p \in D : f[p] \in values[p]} :
            D \in {E \in SUBSET configurableProperties : Cardinality(E) <= MaxFlags} }

\* getArgs (build.js 100-169): yargs 17 leaves an option that is not given and
\* has no default out of argv; "verbose" and "config" have defaults.
getArgs(flags) ==
    [p \in DOMAIN flags \cup {"verbose", "config"} |->
        IF p \in DOMAIN flags THEN flags[p]
        ELSE IF p = "verbose" THEN "true" ELSE "./bin/build-config.json"]

\* reading a property of an object: undefined when it is not there
Get(obj, p) == IF p \in DOMAIN obj THEN obj[p] ELSE "undefined"

\* getCommandLineArguments (build.js 174-180)
getCommandLineArguments(conf, args) ==
    [conf EXCEPT !.optimizeImages = Get(args, "optimizeImages"),
                 !.isLoggingInfo = Get(args, "verbose"),
                 !.isLoggingError = "true"]

\* matchProperties (build.js 205-213)
matchProperties(conf, configurationProperties) ==
    [p \in DOMAIN conf |->
        IF p \in configurableProperties /\ p \in DOMAIN configurationProperties
        THEN configurationProperties[p]
        ELSE conf[p]]

NoObject == [p \in {} |-> "undefined"]

CfgInit ==
    /\ cliFlags \in Objects(CliValues)
    /\ configFile \in
           [kind : {"missing", "malformed", "null"}, data : {NoObject}]
           \cup [kind : {"object"}, data : Objects(FileValues)]
    /\ configuration = DefaultConfiguration
    /\ cfgPc = "start"
    /\ cfgData = NoObject
    /\ cfgErrors = {}
    /\ buildStarted = FALSE

\* updateConfiguration (build.js 219-225): the synchronous part. cliArgs.config
\* always has its default, so pathExists is always asked.
UpdateConfiguration ==
    /\ cfgPc = "start"
    /\ configuration' = getCommandLineArguments(configuration, getArgs(cliFlags))
    /\ cfgPc' = "pathExists"
    /\ UNCHANGED <<buildVars, auxVars, cliFlags, configFile, cfgData, cfgErrors, buildStarted>>

\* the callback of fsExtra.pathExists (build.js 226-244)
PathExistsDone ==
    /\ cfgPc = "pathExists"
    /\ IF configFile.kind # "missing"
       THEN /\ cfgPc' = "readJSON"
            /\ UNCHANGED <<configuration, cfgErrors>>
       ELSE /\ cfgErrors' = cfgErrors \cup {"does not exist"}
            /\ configuration' = matchProperties(configuration, getArgs(cliFlags))
            /\ cfgPc' = "resolved"
    /\ UNCHANGED <<buildVars, auxVars, cliFlags, configFile, cfgData, buildStarted>>

\* loadConfigurationData (build.js 187-198): readJSON settles
ReadJSONDone ==
    /\ cfgPc = "readJSON"
    /\ IF configFile.kind = "malformed"
       THEN /\ cfgErrors' = cfgErrors \cup {"error when reading"}
            /\ cfgData' = NoObject
       ELSE /\ cfgData' = configFile.data
            /\ UNCHANGED cfgErrors
    /\ cfgPc' = "loaded"
    /\ UNCHANGED <<buildVars, auxVars, cliFlags, configFile, configuration, buildStarted>>

\* the then-callback of loadConfigurationData (build.js 230-237). A file holding
\* the JSON literal null makes matchProperties throw in the callback: nothing
\* catches it and the outer promise is never resolved.
ConfigurationLoaded ==
    /\ cfgPc = "loaded"
    /\ IF configFile.kind = "null"
       THEN /\ cfgPc' = "threw"
            /\ UNCHANGED configuration
       ELSE /\ configuration' =
                   matchProperties(matchProperties(configuration, cfgData),
                                   getArgs(cliFlags))
            /\ cfgPc' = "resolved"
    /\ UNCHANGED <<buildVars, auxVars, cliFlags, configFile, cfgData, cfgErrors, buildStarted>>

\* the then-callback of updateConfiguration() (build.js 667-676)
StartBuild ==
    /\ cfgPc = "resolved"
    /\ buildStarted' = TRUE
    /\ cfgPc' = "building"
    /\ UNCHANGED <<buildVars, auxVars, cliFlags, configFile, configuration, cfgData, cfgErrors>>


----------------------------------------------------------------------------
(* The build: the files it finds *)

\* configuration.libsToCopy and .libsToCombine (build.js 66-73)
libsToCopy == {"bootstrap.bundle.min.js"}

libsToCombine == <<"commonUtilities.js", "ShareHelper.js", "enginesis.js">>

\* configuration.jsFilesToIgnore (build.js 64-65)
jsFilesToIgnore == {}

\* the file lists a page bundle can have; "e.js" is an empty file, "m.js" is
\* not on disk. The first and the third list end with the same file.
BundleLists ==
    <<  <<"a.js", "b.js">>, <<"e.js", "m.js">>, <<"c.js", "b.js">>, <<"b.js", "c.js">>  >>

\* the page manifest that holds the lists numbered in S, in their order
RECURSIVE ManifestOf(_)
ManifestOf(S) ==
    IF S = {} THEN <<>>
    ELSE LET i == CHOOSE x \in S : \A y \in S : x <= y
         IN  <<BundleLists[i]>> \o ManifestOf(S \ {i})

\* the page manifests with at most MaxBundles bundles
Manifests ==
    {ManifestOf(S) : S \in {T \in SUBSET (1..Len(BundleLists)) : Cardinality(T) <= MaxBundles}}

JSMissing(file) == file = "m.js"

\* Buffer.byteLength(fileContents) of a page script (build.js 480)
JSSize(file) ==
    CASE file = "a.js" -> 3 [] file = "b.js" -> 2 [] file = "c.js" -> 4 [] OTHER -> 0

\* fileStat.size of an image (build.js 285, 350) and the length of its
\* optimized data (build.js 286)
ImageSize(f) == f + 2

OptimizedSize(f) == f

\* fileStat.size of a library that is copied (build.js 566)
LibSize(file) == 5

\* Buffer.byteLength of a library that is combined (build.js 589)
CombineSize(file) == 2

\* Buffer.byteLength(compressedJSCode.code) for sources of n bytes
\* (build.js 500, 598)
MinifiedSize(n) == IF n > 0 THEN n - 1 ELSE 0

RECURSIVE SeqSum(_)
SeqSum(s) == IF s = <<>> THEN 0 ELSE Head(s) + SeqSum(Tail(s))

ZeroStats == [totalFiles |-> 0, totalBytesConsidered |-> 0, totalBytesCompressed |-> 0]

\* the counters assigned instead of added to
AddStatsAssign(s, files, considered, compressed) ==
    [totalFiles |-> files,
     totalBytesConsidered |-> considered,
     totalBytesCompressed |-> compressed]

\* compressionStats.x += amount (build.js 303-305, 357-359, 479-482, 501,
\* 569-571, 588-590, 599)
AddStats(s, files, considered, compressed) ==
    [totalFiles |-> s.totalFiles + files,
     totalBytesConsidered |-> s.totalBytesConsidered + considered,
     totalBytesCompressed |-> s.totalBytesCompressed + compressed]

----------------------------------------------------------------------------
(* The build: runBuild and Promise.all *)

Bundles == 1..Len(pageManifest)

Images == 1..imageFiles

\* the configurations updateConfiguration can resolve to, as far as the build
\* reads them: optimizeImages is what the command line left (getCommandLineArguments)
BuildInit ==
    /\ compressionStats = ZeroStats
    /\ promise = [js |-> "none", libs |-> "none", images |-> "none"]
    /\ outcome = "none"
    /\ summary = [stats |-> ZeroStats, processed |-> ZeroStats]
    /\ errors = {}
    /\ crashed = "no"
    /\ bundle = [b \in Bundles |-> "none"]
    /\ jsWrites = {}
    /\ libs = [pc |-> "none", stat |-> {}, copied |-> {}, read |-> 0]
    /\ img = [pc |-> "none", started |-> 0, running |-> 0, done |-> FALSE,
              totalFilesCopied |-> 0, totalBytesConsidered |-> 0, totalBytesCopied |-> 0,
              flushed |-> ZeroStats]
    /\ imgFile = [f \in Images |-> "idle"]
    /\ processed = ZeroStats

\* runBuild's then and catch (build.js 659-664), which run as soon as
\* Promise.all settles: the summary is printed when all three promises are
\* resolved, the failure is logged on the first rejection.
Settle(pr, stats, errs, done) ==
    /\ IF outcome # "waiting"
       THEN UNCHANGED <<outcome, summary>> /\ errors' = errs
       ELSE IF \E k \in DOMAIN pr : pr[k] = "rejected"
       THEN /\ outcome' = "failed"
            /\ errors' = errs \cup {<<"probably unhandled error", 0>>}
            /\ UNCHANGED summary
       ELSE IF \A k \in DOMAIN pr : pr[k] = "resolved"
       THEN /\ outcome' = "complete"
            /\ summary' = [stats |-> stats, processed |-> done]
            /\ errors' = errs
       ELSE UNCHANGED <<outcome, summary>> /\ errors' = errs
    /\ promise' = pr
    /\ compressionStats' = stats
    /\ processed' = done


\* an action that settles no promise
Keep(stats, errs, done) ==
    /\ UNCHANGED <<outcome, summary, promise>>
    /\ compressionStats' = stats
    /\ errors' = errs
    /\ processed' = done

Min(a, b) == IF a < b THEN a ELSE b

----------------------------------------------------------------------------
(* optimizeJS: the page bundles *)

\* prepareJSFile (build.js 471-488) over one file list: readFileSync throws at
\* the first listed file that is not on disk
FirstMissing(list) ==
    LET gone == {i \in 1..Len(list) : list[i] \notin jsFilesToIgnore /\ JSMissing(list[i])}
    IN  IF gone = {} THEN 0 ELSE CHOOSE i \in gone : \A j \in gone : i <= j

\* the files of the list that prepareJSFile counts and hands to terser
PreparedFiles(list) ==
    LET upto == IF FirstMissing(list) = 0 THEN Len(list) ELSE FirstMissing(list) - 1
    IN  {i \in 1..upto : list[i] \notin jsFilesToIgnore /\ JSSize(list[i]) > 0}

\* the files of the list that are read and found empty (build.js 484-486)
EmptyFiles(list) ==
    LET upto == IF FirstMissing(list) = 0 THEN Len(list) ELSE FirstMissing(list) - 1
    IN  {i \in 1..upto : list[i] \notin jsFilesToIgnore /\ JSSize(list[i]) = 0}

PreparedBytes(list) ==
    SeqSum([i \in 1..Len(list) |-> IF i \in PreparedFiles(list) THEN JSSize(list[i]) ELSE 0])

\* the loop of optimizeJS (build.js 520-529) stops at the first bundle whose
\* preparation throws; 0 when none does
FirstThrowing ==
    LET bad == {b \in Bundles : FirstMissing(pageManifest[b]) # 0}
    IN  IF bad = {} THEN 0 ELSE CHOOSE b \in bad : \A c \in bad : b <= c

\* the bundles whose files are read, and those whose compression is started
ReadBundles == IF FirstThrowing = 0 THEN Bundles ELSE 1..FirstThrowing

StartedBundles == IF FirstThrowing = 0 THEN Bundles ELSE 1..(FirstThrowing - 1)

\* optimizeJS's executor (build.js 518-531): what it adds to compressionStats
optimizeJSStats ==
    [totalFiles |->
        SeqSum([b \in Bundles |-> IF b \in ReadBundles
                                  THEN Cardinality(PreparedFiles(pageManifest[b])) ELSE 0]),
     totalBytesConsidered |->
        SeqSum([b \in Bundles |-> IF b \in ReadBundles
                                  THEN PreparedBytes(pageManifest[b]) ELSE 0]),
     totalBytesCompressed |-> 0]

optimizeJSErrors ==
    {<<"prepareJSFile Error reading file", b>> :
        b \in {c \in ReadBundles : EmptyFiles(pageManifest[c]) # {}}}

\* path.parse(file).name + ".min.js" (build.js 522-523)
MinName(file) ==
    CASE file = "a.js" -> "a.min.js" [] file = "b.js" -> "b.min.js"
      [] file = "c.js" -> "c.min.js" [] file = "e.js" -> "e.min.js"
      [] OTHER -> "m.min.js"

\* a package named from the first file of the list instead of the last
packageNameFirst(list) == MinName(list[1])

\* the output file of a bundle: named from the last file of its list
packageName(list) == MinName(list[Len(list)])

\* the results of minify and of the write that follows it
MinifyResults == {"ok", "rejects", "writeThrows"}

\* completeJSCompression without its try/catch: a failing minify or write is
\* logged by nobody and ends the process
completeJSCompressionUncaught(b, result) ==
    /\ crashed = "no"
    /\ bundle[b] = "minify"
    /\ IF result = "ok"
       THEN /\ bundle' = [bundle EXCEPT ![b] = "written"]
            /\ jsWrites' = jsWrites \cup {<<b, packageName(pageManifest[b])>>}
            /\ UNCHANGED crashed
            /\ Keep(AddStats(compressionStats, 0, 0,
                             MinifiedSize(PreparedBytes(pageManifest[b]))),
                    errors,
                    AddStats(processed, Cardinality(PreparedFiles(pageManifest[b])),
                             PreparedBytes(pageManifest[b]),
                             MinifiedSize(PreparedBytes(pageManifest[b]))))
       ELSE /\ bundle' = [bundle EXCEPT ![b] = "failed"]
            /\ crashed' = "unhandledRejection"
            /\ UNCHANGED jsWrites
            /\ Keep(compressionStats, errors, processed)
    /\ UNCHANGED <<cfgVars, auxVars, pageManifest, imageFiles, libs, img, imgFile>>

\* completeJSCompression (build.js 490-516) once minify has settled: the try
\* block catches a rejected minify and a throwing mkdirSync/writeFileSync alike
completeJSCompression(b, result) ==
    /\ crashed = "no"
    /\ bundle[b] = "minify"
    /\ IF result = "ok"
       THEN /\ bundle' = [bundle EXCEPT ![b] = "written"]
            /\ jsWrites' = jsWrites \cup {<<b, packageName(pageManifest[b])>>}
            /\ Keep(AddStats(compressionStats, 0, 0,
                             MinifiedSize(PreparedBytes(pageManifest[b]))),
                    errors,
                    AddStats(processed, Cardinality(PreparedFiles(pageManifest[b])),
                             PreparedBytes(pageManifest[b]),
                             MinifiedSize(PreparedBytes(pageManifest[b]))))
       ELSE /\ bundle' = [bundle EXCEPT ![b] = "failed"]
            /\ UNCHANGED jsWrites
            /\ Keep(compressionStats,
                    errors \cup {<<"completeJSCompression Compress error", b>>},
                    processed)
    /\ UNCHANGED <<cfgVars, auxVars, pageManifest, imageFiles, crashed, libs, img, imgFile>>

MinifyBundleDone == \E b \in Bundles, result \in MinifyResults : completeJSCompression(b, result)

----------------------------------------------------------------------------
(* runBuild *)

\* runBuild (build.js 652-665): the three processors are called one after the
\* other. optimizeJS runs its whole executor; optimizeJSLibs runs up to
\* fsExtra.ensureDir; handleImages runs up to the await of glob.
runBuild ==
    /\ buildStarted
    /\ outcome = "none"
    /\ bundle' = [b \in Bundles |-> IF b \in StartedBundles THEN "minify" ELSE "none"]
    /\ compressionStats' =
           AddStats(compressionStats, optimizeJSStats.totalFiles,
                    optimizeJSStats.totalBytesConsidered, 0)
    /\ promise' = [js |-> IF FirstThrowing = 0 THEN "resolved" ELSE "rejected",
                   libs |-> "pending", images |-> "pending"]
    /\ IF FirstThrowing = 0
       THEN /\ outcome' = "waiting"
            /\ errors' = errors \cup optimizeJSErrors
       ELSE /\ outcome' = "failed"
            /\ errors' = errors \cup optimizeJSErrors \cup {<<"probably unhandled error", 0>>}
    /\ libs' = [libs EXCEPT !.pc = "ensureDir"]
    /\ img' = [img EXCEPT !.pc = "glob"]
    /\ UNCHANGED <<cfgVars, auxVars, pageManifest, imageFiles, jsWrites, summary, crashed, imgFile, processed>>


----------------------------------------------------------------------------
(* optimizeJSLibs: the libraries *)

CombineBytes(n) == SeqSum([i \in 1..n |-> CombineSize(libsToCombine[i])])

\* the two then-callbacks after fsExtra.ensureDir (build.js 557-595) and the
\* catch that ends the chain (616-618). They run back to back: the first asks
\* for the stat of every library to copy (async.map's iteratee never calls its
\* callback, so map's own callback never runs), the second reads the libraries
\* to combine and starts minify. `read` is the number of libraries read before
\* readFileSync throws (all of them when none does).
EnsureDirDone(ok, read) ==
    /\ crashed = "no"
    /\ libs.pc = "ensureDir"
    /\ IF ~ok
       THEN /\ libs' = [libs EXCEPT !.pc = "stuck"]
            /\ Keep(compressionStats, errors \cup {<<"fsExtra.ensureDir exception", 0>>},
                    processed)
       ELSE /\ libs' = [libs EXCEPT !.pc = IF read = Len(libsToCombine)
                                            THEN "minify" ELSE "stuck",
                                      !.stat = libsToCopy,
                                      !.read = read]
            /\ Keep(AddStats(compressionStats, read, CombineBytes(read), 0),
                    IF read = Len(libsToCombine) THEN errors
                    ELSE errors \cup {<<"fsExtra.ensureDir exception", 0>>},
                    processed)
    /\ UNCHANGED <<cfgVars, auxVars, pageManifest, imageFiles, jsWrites, crashed, bundle, img, imgFile>>

\* the callback of fsExtra.stat for a library to copy (build.js 561-573): the
\* throw on a stat error, and a throwing copyFileSync, leave the callback
\* uncaught
LibStatDone(file, result) ==
    /\ crashed = "no"
    /\ file \in libs.stat
    /\ libs' = [libs EXCEPT !.stat = @ \ {file},
                            !.copied = IF result = "ok" THEN @ \cup {file} ELSE @]
    /\ IF result = "ok"
       THEN /\ Keep(AddStats(compressionStats, 1, LibSize(file), LibSize(file)), errors,
                    AddStats(processed, 1, LibSize(file), LibSize(file)))
            /\ UNCHANGED crashed
       ELSE /\ crashed' = "uncaughtException"
            /\ Keep(compressionStats, errors, processed)
    /\ UNCHANGED <<cfgVars, auxVars, pageManifest, imageFiles, jsWrites, bundle, img, imgFile>>

\* the handlers of minify's promise for the combined library (build.js 595-614)
MinifyLibsDone(result) ==
    /\ crashed = "no"
    /\ libs.pc = "minify"
    /\ IF result = "ok"
       THEN /\ libs' = [libs EXCEPT !.pc = "resolved"]
            /\ Settle([promise EXCEPT !.libs = "resolved"],
                      AddStats(compressionStats, 0, 0,
                               MinifiedSize(CombineBytes(Len(libsToCombine)))),
                      errors,
                      AddStats(processed, Len(libsToCombine),
                               CombineBytes(Len(libsToCombine)),
                               MinifiedSize(CombineBytes(Len(libsToCombine)))))
       ELSE /\ libs' = [libs EXCEPT !.pc = "stuck"]
            /\ Keep(compressionStats,
                    errors \cup {IF result = "rejects" THEN <<"Minify error", 0>>
                                 ELSE <<"Minify exception", 0>>},
                    processed)
    /\ UNCHANGED <<cfgVars, auxVars, pageManifest, imageFiles, jsWrites, crashed, bundle, img, imgFile>>

LibsEnsureDir == \E ok \in BOOLEAN, read \in 0..Len(libsToCombine) : EnsureDirDone(ok, read)

LibsStat == \E file \in libsToCopy, result \in {"ok", "statError", "copyThrows"} :
                LibStatDone(file, result)

LibsMinify == \E result \in MinifyResults : MinifyLibsDone(result)

----------------------------------------------------------------------------
(* handleImages: the image batch *)

\* handleImages (build.js 627-633)
OptimizeMode == configuration.optimizeImages = "true"

\* async.eachLimit's replenish, as called at build.js 268 and 336: files are
\* started while fewer than the limit are running; the loop marks the batch
\* done when it asks for a file after the last one.
Replenish(s) ==
    IF s.done THEN [img |-> s, from |-> s.started, final |-> FALSE]
    ELSE LET k == Min(numberOfCPUs - s.running, imageFiles - s.started)
             ended == s.running + k < numberOfCPUs
         IN  [img |-> [s EXCEPT !.started = @ + k, !.running = @ + k, !.done = ended],
              from |-> s.started,
              final |-> ended /\ s.running + k <= 0]

\* async.eachLimit's iterateeCallback: what follows callback(err) at build.js
\* 300, 342 and 354
IterateeCallback(s, err) ==
    LET t == [s EXCEPT !.running = @ - 1]
    IN  IF err THEN [img |-> [t EXCEPT !.done = TRUE], from |-> t.started, final |-> TRUE]
        ELSE IF t.done /\ t.running <= 0 THEN [img |-> t, from |-> t.started, final |-> TRUE]
        ELSE Replenish(t)

\* the state of the files once eachLimit has taken its step: the files it
\* started are in ImageMin (optimizeImages) or in stat (copyImages)
StartFiles(files, r) ==
    [f \in Images |->
        IF f > r.from /\ f <= r.img.started
        THEN (IF OptimizeMode THEN "imagemin" ELSE "stat")
        ELSE files[f]]

\* eachLimit's final callback (build.js 302-315, 356-367); it runs once
FinalCallback(r, err, errs, done) ==
    IF r.final /\ img.pc # "finished"
    THEN /\ img' = [r.img EXCEPT !.pc = "finished",
                                 !.flushed = AddStats(ZeroStats, r.img.totalFilesCopied,
                                                      r.img.totalBytesConsidered,
                                                      r.img.totalBytesCopied)]
         /\ Settle([promise EXCEPT !.images = IF err THEN "rejected" ELSE "resolved"],
                   AddStats(compressionStats, r.img.totalFilesCopied,
                            r.img.totalBytesConsidered, r.img.totalBytesCopied),
                   errs, done)
    ELSE /\ img' = r.img
         /\ Keep(compressionStats, errs, done)

\* glob resolves and eachLimit starts (build.js 267-268, 335-336)
GlobDone ==
    /\ crashed = "no"
    /\ img.pc = "glob"
    /\ LET r == Replenish([img EXCEPT !.pc = "running"])
       IN  /\ imgFile' = StartFiles(imgFile, r)
           /\ FinalCallback(r, FALSE, errors, processed)
    /\ UNCHANGED <<cfgVars, auxVars, pageManifest, imageFiles, jsWrites, crashed, bundle, libs>>

\* optimizeImages: ImageMin settles (build.js 271-301). On success the stat is
\* asked for and callback(null) is called at once; a rejection leaves the async
\* function rejected with nothing to handle it.
ImageMinDone(f, ok) ==
    /\ crashed = "no"
    /\ OptimizeMode
    /\ imgFile[f] = "imagemin"
    /\ IF ok
       THEN LET r == IterateeCallback(img, FALSE)
            IN  /\ imgFile' = StartFiles([imgFile EXCEPT ![f] = "stat"], r)
                /\ FinalCallback(r, FALSE, errors,
                                 AddStats(processed, 1, ImageSize(f), OptimizedSize(f)))
                /\ UNCHANGED crashed
       ELSE /\ crashed' = "unhandledRejection"
            /\ imgFile' = [imgFile EXCEPT ![f] = "rejected"]
            /\ img' = img
            /\ Keep(compressionStats, errors, processed)
    /\ UNCHANGED <<cfgVars, auxVars, pageManifest, imageFiles, jsWrites, bundle, libs>>

\* optimizeImages: the callback of fsExtra.stat (build.js 281-299)
OptimizeStatDone(f, ok) ==
    /\ crashed = "no"
    /\ OptimizeMode
    /\ imgFile[f] = "stat"
    /\ IF ok
       THEN /\ imgFile' = [imgFile EXCEPT ![f] = "done"]
            /\ img' = [img EXCEPT !.totalFilesCopied = @ + 1,
                                  !.totalBytesConsidered = @ + ImageSize(f),
                                  !.totalBytesCopied = @ + OptimizedSize(f)]
            /\ Keep(compressionStats, errors, processed)
       ELSE /\ imgFile' = [imgFile EXCEPT ![f] = "statError"]
            /\ img' = img
            /\ Keep(compressionStats, errors \cup {<<"fstat error", f>>}, processed)
    /\ UNCHANGED <<cfgVars, auxVars, pageManifest, imageFiles, jsWrites, crashed, bundle, libs>>

\* copyImages: the callback of fsExtra.stat (build.js 338-355), for each way
\* it can go: the stat fails, mkdirSync or copyFileSync throws, or the file is
\* copied
CopyStatCallback(f, result) ==
    /\ crashed = "no"
    /\ ~OptimizeMode
    /\ imgFile[f] = "stat"
    /\ CASE result = "ok" ->
              LET counted == [img EXCEPT !.totalFilesCopied = @ + 1,
                                         !.totalBytesConsidered = @ + ImageSize(f),
                                         !.totalBytesCopied = @ + ImageSize(f)]
                  r == IterateeCallback(counted, FALSE)
              IN  /\ imgFile' = StartFiles([imgFile EXCEPT ![f] = "done"], r)
                  /\ FinalCallback(r, FALSE, errors,
                                   AddStats(processed, 1, ImageSize(f), ImageSize(f)))
                  /\ UNCHANGED crashed
         [] result = "statError" ->
              LET r == IterateeCallback(img, TRUE)
              IN  /\ imgFile' = StartFiles([imgFile EXCEPT ![f] = "statError"], r)
                  /\ FinalCallback(r, TRUE, errors \cup {<<"fstat error", f>>}, processed)
                  /\ UNCHANGED crashed
         [] OTHER ->
              /\ crashed' = "uncaughtException"
              /\ imgFile' = [imgFile EXCEPT ![f] = "threw"]
              /\ img' = img
              /\ Keep(compressionStats, errors, processed)
    /\ UNCHANGED <<cfgVars, pageManifest, imageFiles, jsWrites, bundle, libs>>

CopyStatDone(f, result) ==
    /\ CopyStatCallback(f, result)
    /\ UNCHANGED auxVars

ImagesImageMin == \E f \in Images, ok \in BOOLEAN : ImageMinDone(f, ok)

ImagesOptimizeStat == \E f \in Images, ok \in BOOLEAN : OptimizeStatDone(f, ok)

ImagesCopyStat == \E f \in Images, result \in {"ok", "statError", "copyThrows"} :
                      CopyStatDone(f, result)

----------------------------------------------------------------------------
(* The destination of an image file. Paths are sequences of characters. *)

\* the forms the configured image source root can take
SourceRoots ==
    { <<".", "/", "p", "/", "i">>, <<"p", "/", "i">>,
      <<".", "/", "p", "/", "i", "/">>, <<"p", "/", "i", "/">>,
      <<".", "/", "i">>, <<"i">>, <<".", "/", "i", "/">>, <<"i", "/">> }

DestinationRoots == { <<".", "/", "d", "/", "i">>, <<"d">> }

\* the files found below the source root
RelativePaths == { <<"f">>, <<"s", "/", "f">>, <<"s", "/", "t", "/", "f">> }

\* a path cut at its "/" characters
RECURSIVE SplitSeq(_)
SplitSeq(s) ==
    IF s = <<>> THEN << <<>> >>
    ELSE LET rest == SplitSeq(Tail(s))
         IN  IF Head(s) = "/" THEN << <<>> >> \o rest
             ELSE << <<Head(s)>> \o Head(rest) >> \o Tail(rest)

\* path.normalize's walk over the segments: "" and "." are dropped, ".." takes
\* the segment before it away
RECURSIVE Resolve(_, _, _)
Resolve(segs, acc, abs) ==
    IF segs = <<>> THEN acc
    ELSE LET g == Head(segs)
         IN  IF g = <<>> \/ g = <<".">> THEN Resolve(Tail(segs), acc, abs)
             ELSE IF g = <<".", ".">>
             THEN (IF acc # <<>> /\ acc[Len(acc)] # <<".", ".">>
                   THEN Resolve(Tail(segs), SubSeq(acc, 1, Len(acc) - 1), abs)
                   ELSE IF abs THEN Resolve(Tail(segs), acc, abs)
                   ELSE Resolve(Tail(segs), Append(acc, g), abs))
             ELSE Resolve(Tail(segs), Append(acc, g), abs)

RECURSIVE Glue(_)
Glue(segs) ==
    IF segs = <<>> THEN <<>>
    ELSE IF Len(segs) = 1 THEN segs[1]
    ELSE segs[1] \o <<"/">> \o Glue(Tail(segs))

\* path.normalize (posix)
normalize(s) ==
    LET abs == s # <<>> /\ s[1] = "/"
        trailing == s # <<>> /\ s[Len(s)] = "/"
        body == Glue(Resolve(SplitSeq(s), <<>>, abs))
    IN  IF s = <<>> THEN <<".">>
        ELSE IF body = <<>>
        THEN (IF abs THEN <<"/">> ELSE IF trailing THEN <<".", "/">> ELSE <<".">>)
        ELSE (IF abs THEN <<"/">> ELSE <<>>) \o body
             \o (IF trailing THEN <<"/">> ELSE <<>>)

\* path.join of two arguments: the non-empty ones joined by "/", normalized
join(a, b) ==
    IF a = <<>> /\ b = <<>> THEN <<".">>
    ELSE IF a = <<>> THEN normalize(b)
    ELSE IF b = <<>> THEN normalize(a)
    ELSE normalize(a \o <<"/">> \o b)

\* String.prototype.substring(n), n >= 0
substring(s, n) == IF n >= Len(s) THEN <<>> ELSE SubSeq(s, n + 1, Len(s))

\* what glob answers for a file below the root: globSpec is
\* path.join(sourcePath, "/**/") + "*." + imagesGlobSpec (build.js 259, 327),
\* so the path starts with the normalized root
globFile(root, rel) == join(root, rel)

\* build.js 260 and 269, 328 and 337
destinationOf(root, destination, f) ==
    LET sourcePathLength == Len(root) - 1
    IN  join(destination, substring(f, sourcePathLength))

PathsIdle ==
    /\ sourcePath = <<>>
    /\ destinationPath = <<>>
    /\ relativePath = <<>>
    /\ imageFile = <<>>
    /\ destinationFile = <<>>
    /\ pathPc = "idle"

\* no copy is modelled
CopyIdle ==
    /\ copyOrder = <<>>
    /\ destDirs = {}
    /\ destFiles = <<>>
    /\ copyRun = 0
    /\ firstRun = [dirs |-> {}, files |-> <<>>, ended |-> "none"]

\* deploy.js is not run
DeployIdle ==
    /\ deployArgs = <<>>
    /\ deployFile = [kind |-> "missing", data |-> <<>>]
    /\ deployConfiguration = <<>>
    /\ debug = "false"
    /\ rsyncFlags = <<>>
    /\ buildInfoWritten = FALSE
    /\ deployPc = "idle"

\* the SDK is not loaded
QueueIdle ==
    /\ isOnline = TRUE
    /\ serviceQueue = <<>>
    /\ serviceQueueRestored = 0
    /\ internalStateSeq = 0
    /\ storedQueue = [saved |-> FALSE, queue |-> <<>>]
    /\ requests = {}
    /\ sendPromises = <<>>
    /\ restorePromise = <<>>
    /\ queueErrors = {}
    /\ microtasks = <<>>
    /\ fetched = {}
    /\ offlineQueued = {}
    /\ initCalls = 0
    /\ restoreTimers = 0
    /\ refreshToken = "null"
    /\ serverSession = "valid"

\* versionUp.js is not run
VersionIdle ==
    /\ versionUpdateTask = "undefined"
    /\ versionFiles = <<>>
    /\ versionOriginals = <<>>
    /\ nextVersion = <<>>
    /\ versionPc = "idle"
    /\ versionFilePc = <<>>

\* the variables outside the build and its configuration, at rest
AuxIdle == PathsIdle /\ CopyIdle /\ DeployIdle /\ QueueIdle /\ VersionIdle

\* the configuration and the build at rest
BuildIdle ==
    /\ cliFlags = NoObject
    /\ configFile = [kind |-> "missing", data |-> NoObject]
    /\ configuration = DefaultConfiguration
    /\ cfgPc = "idle"
    /\ cfgData = NoObject
    /\ cfgErrors = {}
    /\ buildStarted = FALSE
    /\ pageManifest = <<>>
    /\ imageFiles = 0
    /\ BuildInit

PathsInit ==
    /\ sourcePath \in SourceRoots
    /\ destinationPath \in DestinationRoots
    /\ relativePath \in RelativePaths
    /\ imageFile = globFile(sourcePath, relativePath)
    /\ destinationFile = <<>>
    /\ pathPc = "glob"

\* the iteratee of optimizeImages (build.js 269)
OptimizeImagesDestination ==
    /\ pathPc = "glob"
    /\ destinationFile' = destinationOf(sourcePath, destinationPath, imageFile)
    /\ pathPc' = "optimizeImages"
    /\ UNCHANGED <<cfgVars, buildVars, copyVars, deployVars, queueVars, versionVars, sourcePath, destinationPath,
                   relativePath, imageFile>>

\* the iteratee of copyImages (build.js 337)
CopyImagesDestination ==
    /\ pathPc = "glob"
    /\ destinationFile' = destinationOf(sourcePath, destinationPath, imageFile)
    /\ pathPc' = "copyImages"
    /\ UNCHANGED <<cfgVars, buildVars, copyVars, deployVars, queueVars, versionVars, sourcePath, destinationPath,
                   relativePath, imageFile>>

----------------------------------------------------------------------------
(* The image copy run twice: the destination tree. A path below a root is the
   sequence of its segments; the destination root is the empty path. *)

\* the image files a source tree can hold, by their paths below the source root
TreeFiles == { <<"f">>, <<"s", "g">>, <<"s", "t", "h">> }

\* what glob can answer: the files of a tree, each once, in the order glob
\* lists them
Orders ==
    UNION { {o \in [1..n -> TreeFiles] : \A i, j \in 1..n : i # j => o[i] # o[j]} :
            n \in 0..MaxFiles }

\* path.dirname
dirname(p) == SubSeq(p, 1, Len(p) - 1)

\* the bytes of a source file
SourceContents(p) == p[Len(p)]

\* fsExtra.mkdirSync(newPath) (build.js 346) makes one directory: it throws when
\* the directory above is not there. The directory above the destination root
\* is taken to exist.
CanMkdir(dir) == dir = <<>> \/ dirname(dir) \in destDirs

\* the callback of fsExtra.stat in copyImages (build.js 338-355), with the
\* destination tree: existsSync, mkdirSync and copyFileSync (which overwrites)
CopyImageFile(f) ==
    LET p == copyOrder[f]
        newPath == dirname(p)
    IN  /\ IF newPath \in destDirs \/ CanMkdir(newPath)
           THEN /\ CopyStatCallback(f, "ok")
                /\ destDirs' = destDirs \cup {newPath}
                /\ destFiles' = [q \in DOMAIN destFiles \cup {p} |->
                                    IF q = p THEN SourceContents(p) ELSE destFiles[q]]
           ELSE /\ CopyStatCallback(f, "copyThrows")
                /\ UNCHANGED <<destDirs, destFiles>>
        /\ UNCHANGED <<pathVars, deployVars, queueVars, versionVars, copyOrder, copyRun, firstRun>>

CopyImages == \E f \in Images : CopyImageFile(f)

\* the run of the build is over: the image batch has completed, or the process
\* has died
RunEnded == crashed # "no" \/ img.pc = "finished"

\* the build is run again on the same source tree: a new process, the
\* destination tree as the first run left it
SecondRun ==
    /\ copyRun = 1
    /\ RunEnded
    /\ copyRun' = 2
    /\ firstRun' = [dirs |-> destDirs, files |-> destFiles,
                    ended |-> IF crashed = "no" THEN "completed" ELSE "died"]
    /\ compressionStats' = ZeroStats
    /\ promise' = [js |-> "none", libs |-> "none", images |-> "none"]
    /\ outcome' = "none"
    /\ summary' = [stats |-> ZeroStats, processed |-> ZeroStats]
    /\ errors' = {}
    /\ crashed' = "no"
    /\ bundle' = [b \in Bundles |-> "none"]
    /\ jsWrites' = {}
    /\ libs' = [pc |-> "none", stat |-> {}, copied |-> {}, read |-> 0]
    /\ img' = [pc |-> "none", started |-> 0, running |-> 0, done |-> FALSE,
               totalFilesCopied |-> 0, totalBytesConsidered |-> 0, totalBytesCopied |-> 0,
               flushed |-> ZeroStats]
    /\ imgFile' = [f \in Images |-> "idle"]
    /\ processed' = ZeroStats
    /\ UNCHANGED <<cfgVars, pathVars, deployVars, queueVars, versionVars, pageManifest, imageFiles, copyOrder,
                   destDirs, destFiles>>

CopyInit ==
    /\ copyOrder \in Orders
    /\ destDirs \in {{}, {<<>>}}
    /\ destFiles = <<>>
    /\ copyRun = 1
    /\ firstRun = [dirs |-> {}, files |-> <<>>, ended |-> "none"]

----------------------------------------------------------------------------
(* deploy.js: the configuration merge and the rsync run *)

\* the options of deploy's command line (deploy.js 147-223)
DeployOptions ==
    {"conf", "destination", "site", "host", "key", "log", "source", "targetstage",
     "user", "exclude", "verbose", "dryrun"}

DeployBooleans == {"verbose", "dryrun"}

\* the configuration property an option sets (mergeArgs, deploy.js 101-136)
PropertyOf(option) ==
    CASE option = "conf" -> "configurationFile"
      [] option = "destination" -> "destinationPath"
      [] option = "host" -> "destinationHost"
      [] option = "key" -> "sshKeyFile"
      [] option = "log" -> "logFile"
      [] option = "source" -> "sourcePath"
      [] option = "user" -> "destinationUser"
      [] option = "exclude" -> "excludeFiles"
      [] option = "verbose" -> "debug"
      [] option = "dryrun" -> "isDryRun"
      [] OTHER -> option

\* deploy.js 15
defaultConfigurationFilePath == "bin/deploy-config.json"

\* deploy.js 25-39
configurationDefault ==
    [site |-> "puttputtplanet", targetstage |-> "-q", isDryRun |-> "true",
     destinationHost |-> "", destinationUser |-> "", destinationPassword |-> "",
     destinationPath |-> "/var/www/vhosts/puttputtplanet-q",
     excludeFiles |-> "./bin/exclude-puttputtplanet-files.txt", sourcePath |-> "./",
     sshKeyFile |-> "", debug |-> "false", logFile |-> "",
     configurationFile |-> defaultConfigurationFilePath]

\* the values an option of the command line can carry: a string option can be
\* given an empty value
DeployArgValues ==
    [o \in DeployOptions |->
        IF o \in DeployBooleans THEN {"true", "false"} ELSE {"cli", ""}]

\* the values a key of the configuration file can carry
DeployFileValues ==
    [k \in DOMAIN configurationDefault |->
        IF k \in {"isDryRun", "debug"} THEN {"true", "false"} ELSE {"file"}]

\* the objects with at most max keys, each key with one of its values
DeployObjects(values, max) ==
    UNION { {f \in [D -> {"true", "false", "cli", "file", ""}] :
                \A k \in D : f[k] \in values[k]} :
            D \in {E \in SUBSET DOMAIN values : Cardinality(E) <= max} }

\* a value that an if takes as true
Truthy(v) == v \notin {"false", "", "undefined", "null"}

\* getArgs with no default for dryrun: the option is absent when not given
deployGetArgsNoDefault(flags) ==
    [o \in DOMAIN flags \cup {"conf", "verbose"} |->
        IF o \in DOMAIN flags THEN flags[o]
        ELSE IF o = "conf" THEN defaultConfigurationFilePath
        ELSE "false"]

\* getArgs (deploy.js 145-227): conf, verbose and dryrun have defaults, so they
\* are in argv whether given or not
deployGetArgs(flags) ==
    [o \in DOMAIN flags \cup {"conf", "verbose", "dryrun"} |->
        IF o \in DOMAIN flags THEN flags[o]
        ELSE IF o = "conf" THEN defaultConfigurationFilePath
        ELSE IF o = "verbose" THEN "false"
        ELSE "true"]

\* loadConfigurationData (deploy.js 48-58), for a file that can be parsed:
\* JSON.parse(rawData) || {}
loadConfigurationData(f) == IF f.kind = "object" THEN f.data ELSE <<>>

\* the options whose value mergeArgs copies into the configuration
\* (deploy.js 101-136)
OptionsMerged(args) ==
    {o \in DOMAIN args :
        IF o = "dryrun" THEN TRUE ELSE Truthy(args[o])}

mergeArgs(args, conf) ==
    LET set == {PropertyOf(o) : o \in OptionsMerged(args)}
    IN  [k \in DOMAIN conf \cup set |->
            IF k \in set
            THEN args[CHOOSE o \in OptionsMerged(args) : PropertyOf(o) = k]
            ELSE conf[k]]

\* mergeConfigurationData (deploy.js 66-91): the file, then the defaults for
\* what the file does not have, then the command line
mergeConfigurationData(defaults, flags, f) ==
    LET args == deployGetArgs(flags)
        loaded == loadConfigurationData(f)
        withDefaults ==
            [k \in DOMAIN loaded \cup (DOMAIN defaults \ {"configurationFile"}) |->
                IF k \in DOMAIN loaded THEN loaded[k] ELSE defaults[k]]
    IN  mergeArgs(args, withDefaults)

DeployInit ==
    /\ deployArgs \in DeployObjects(DeployArgValues, MaxArgs)
    /\ deployFile \in
           [kind : {"missing", "malformed", "null"}, data : {<<>>}]
           \cup [kind : {"object"}, data : DeployObjects(DeployFileValues, MaxKeys)]
    /\ deployConfiguration = <<>>
    /\ debug = "false"
    /\ rsyncFlags = <<"z", "r", "p", "t", "c", "v">>
    /\ buildInfoWritten = FALSE
    /\ deployPc = "start"

\* the script (deploy.js 361-362): mergeConfigurationData, then deploy up to
\* rsync.execute (292-343). JSON.parse throws on a malformed file and ends the
\* script.
DeployScript ==
    /\ deployPc = "start"
    /\ IF deployFile.kind = "malformed"
       THEN /\ deployPc' = "threw"
            /\ debug' = deployGetArgs(deployArgs)["verbose"]
            /\ UNCHANGED <<deployConfiguration, rsyncFlags, buildInfoWritten>>
       ELSE LET conf == mergeConfigurationData(configurationDefault, deployArgs, deployFile)
                isDryRun == conf["isDryRun"]
            IN  /\ deployConfiguration' = conf
                /\ debug' = conf["debug"]
                /\ IF Truthy(isDryRun)
                   THEN /\ rsyncFlags' = rsyncFlags \o <<"n">>
                        /\ UNCHANGED buildInfoWritten
                   ELSE /\ buildInfoWritten' = TRUE
                        /\ UNCHANGED rsyncFlags
                /\ deployPc' = "executing"
    /\ UNCHANGED <<cfgVars, buildVars, pathVars, copyVars, queueVars, versionVars, deployArgs, deployFile>>

\* the callback of rsync.execute (deploy.js 343-351)
RsyncExecuteDone(error) ==
    /\ deployPc = "executing"
    /\ deployPc' = IF error THEN "failed"
                   ELSE IF Truthy(deployConfiguration["isDryRun"]) THEN "dryRunComplete"
                   ELSE "deployComplete"
    /\ UNCHANGED <<cfgVars, buildVars, pathVars, copyVars, queueVars, versionVars, deployArgs, deployFile,
                   deployConfiguration, debug, rsyncFlags, buildInfoWritten>>

RsyncExecute == \E error \in BOOLEAN : RsyncExecuteDone(error)

----------------------------------------------------------------------------
(* The specifications *)

\* the resolver alone: the build's variables stay as they start
CfgNext ==
    \/ UpdateConfiguration
    \/ PathExistsDone
    \/ ReadJSONDone
    \/ ConfigurationLoaded
    \/ StartBuild

InitConfig ==
    /\ CfgInit
    /\ pageManifest = <<>>
    /\ imageFiles = 0
    /\ BuildInit
    /\ AuxIdle

SpecConfig == InitConfig /\ [][CfgNext]_vars

\* the build, from the call of runBuild: the resolver has finished, and
\* optimizeImages is "undefined" when neither the command line nor the file gave it
Init ==
    /\ cliFlags = NoObject
    /\ configFile = [kind |-> "missing", data |-> NoObject]
    /\ configuration \in {[DefaultConfiguration EXCEPT !.optimizeImages = v] :
                              v \in {"true", "false", "undefined"}}
    /\ cfgPc = "building"
    /\ cfgData = NoObject
    /\ cfgErrors = {}
    /\ buildStarted = TRUE
    /\ pageManifest \in Manifests
    /\ imageFiles \in 0..MaxFiles
    /\ BuildInit
    /\ AuxIdle

Next ==
    \/ runBuild
    \/ MinifyBundleDone
    \/ LibsEnsureDir
    \/ LibsStat
    \/ LibsMinify
    \/ GlobDone
    \/ ImagesImageMin
    \/ ImagesOptimizeStat
    \/ ImagesCopyStat

Spec == Init /\ [][Next]_vars

\* the build with the page manifest as the configuration literal has it
\* (build.js 54-55: empty, and matchProperties never replaces it): no page
\* bundle is ever compressed
InitShipped ==
    /\ Init
    /\ pageManifest = <<>>

NextShipped ==
    \/ runBuild
    \/ LibsEnsureDir
    \/ LibsStat
    \/ LibsMinify
    \/ GlobDone
    \/ ImagesImageMin
    \/ ImagesOptimizeStat
    \/ ImagesCopyStat

SpecShipped == InitShipped /\ [][NextShipped]_vars

\* the destination of one image file, for every form of the source root
InitPaths ==
    /\ BuildIdle
    /\ PathsInit
    /\ CopyIdle
    /\ DeployIdle
    /\ QueueIdle
    /\ VersionIdle

NextPaths ==
    \/ OptimizeImagesDestination
    \/ CopyImagesDestination

SpecPaths == InitPaths /\ [][NextPaths]_vars

\* the build in copy mode, run twice on one source tree
InitCopy ==
    /\ cliFlags = NoObject
    /\ configFile = [kind |-> "missing", data |-> NoObject]
    /\ configuration = [DefaultConfiguration EXCEPT !.optimizeImages = "false"]
    /\ cfgPc = "building"
    /\ cfgData = NoObject
    /\ cfgErrors = {}
    /\ buildStarted = TRUE
    /\ pageManifest = <<>>
    /\ CopyInit
    /\ imageFiles = Len(copyOrder)
    /\ BuildInit
    /\ PathsIdle
    /\ DeployIdle
    /\ QueueIdle
    /\ VersionIdle

NextCopy ==
    \/ runBuild
    \/ GlobDone
    \/ CopyImages
    \/ SecondRun

SpecCopy == InitCopy /\ [][NextCopy]_vars

\* deploy.js, from the start of the script
InitDeploy ==
    /\ BuildIdle
    /\ PathsIdle
    /\ CopyIdle
    /\ DeployInit
    /\ QueueIdle
    /\ VersionIdle

NextDeploy ==
    \/ DeployScript
    \/ RsyncExecute

SpecDeploy == InitDeploy /\ [][NextDeploy]_vars


----------------------------------------------------------------------------
(* The service queue of the Enginesis SDK (public/js/lib/enginesis.js), in
   the browser build: requests go out through fetch and the queue is saved
   in localStorage.  An item of the queue is [state_seq, state_status, fn].
   The handlers are written as operators from the state of the SDK to its
   next state; QueueState gathers the variables into that state. *)

\* what localStorage holds under serviceQueueSaveKey when the page loads:
\* nothing, or the queue a previous session saved
PreviousSessions ==
    { [saved |-> FALSE, queue |-> <<>>],
      [saved |-> TRUE,  queue |-> <<>>],
      [saved |-> TRUE,
       queue |-> << [state_seq |-> 1, state_status |-> 1, fn |-> "ScoreSubmit"] >>],
      [saved |-> TRUE,
       queue |-> << [state_seq |-> 2, state_status |-> 0, fn |-> "ScoreSubmit"] >>] }

QueueState ==
    [ isOnline |-> isOnline, serviceQueue |-> serviceQueue,
      serviceQueueRestored |-> serviceQueueRestored,
      internalStateSeq |-> internalStateSeq, storedQueue |-> storedQueue,
      requests |-> requests, sendPromises |-> sendPromises,
      restorePromise |-> restorePromise, queueErrors |-> queueErrors,
      microtasks |-> microtasks, fetched |-> fetched,
      offlineQueued |-> offlineQueued ]

\* the resolve functions processNextMessage is called with: the one of the
\* n-th call of restoreOnline, and the one of the n-th call of sendRequest
RestoreResolve(n) == [of |-> "restoreOnline", id |-> n]
SendResolve(n) == [of |-> "sendRequest", id |-> n]

\* no passthru to take state_seq and state_status from
NoPassthru == [given |-> FALSE, state_seq |-> 0, state_status |-> 0]
Passthru(seq, status) == [given |-> TRUE, state_seq |-> seq, state_status |-> status]
NoResult == [state_seq |-> 0, code |-> "", fn |-> ""]

\* saveObjectWithKey(serviceQueueSaveKey, queue)
saveServiceQueue(queue) == [saved |-> TRUE, queue |-> queue]

\* the index of the first item that is not yet sent, 0 when there is none
getNextUnprocessedMessage(queue) ==
    IF \E i \in 1..Len(queue) : queue[i].state_status = 0
    THEN CHOOSE i \in 1..Len(queue) :
            /\ queue[i].state_status = 0
            /\ \A j \in 1..(i - 1) : queue[j].state_status # 0
    ELSE 0

resetServiceQueue(queue) ==
    [i \in 1..Len(queue) |-> [queue[i] EXCEPT !.state_status = 0]]

\* the items removeFromServiceQueue leaves, and how many it removes
QueueWithout(queue, seq) ==
    LET kept == {i \in 1..Len(queue) : queue[i].state_seq # seq}
    IN  [k \in 1..Cardinality(kept) |->
            queue[CHOOSE i \in kept : Cardinality({j \in kept : j <= i}) = k]]
Removed(queue, seq) == Len(queue) - Len(QueueWithout(queue, seq))

removeFromServiceQueue(st, seq) ==
    LET queue == QueueWithout(st.serviceQueue, seq)
        removed == Removed(st.serviceQueue, seq)
    IN  IF st.serviceQueueRestored > 0 /\ removed > 0
        THEN [st EXCEPT !.serviceQueue = queue,
                        !.serviceQueueRestored = @ - removed,
                        !.storedQueue = saveServiceQueue(queue)]
        ELSE [st EXCEPT !.serviceQueue = queue]

\* restoreServiceQueue (884-896): the queue in memory gives way to the one in
\* localStorage, and serviceQueueRestored is the length of the queue that
\* was in memory
restoreServiceQueue(st) ==
    IF st.storedQueue.saved
    THEN [st EXCEPT !.storedQueue = saveServiceQueue(<<>>),
                    !.serviceQueueRestored = Len(st.serviceQueue),
                    !.serviceQueue = resetServiceQueue(st.storedQueue.queue)]
    ELSE [st EXCEPT !.serviceQueueRestored = 0, !.serviceQueue = <<>>]

\* setOffline (1270-1280)
setOffline(st) ==
    [st EXCEPT !.storedQueue = IF st.isOnline THEN saveServiceQueue(st.serviceQueue)
                               ELSE @,
               !.isOnline = FALSE]

\* the fetch processNextMessage issues for item i, resolving to `resolve`
Sent(queue, i) == [queue EXCEPT ![i].state_status = 1]
Fetch(queue, i, resolve) ==
    [state_seq |-> queue[i].state_seq, fn |-> queue[i].fn, resolve |-> resolve,
     stage |-> "fetch", code |-> ""]

\* a promise of sendRequest is rejected, which only the first settlement does
RejectSend(st, n) ==
    [st EXCEPT !.sendPromises[n].state = IF @ = "pending" THEN "rejected" ELSE @]

\* processNextMessage (1007-1097) up to the fetch.  With nothing to send it
\* calls reject: a promise of sendRequest is rejected; the reject callback of
\* restoreOnline calls processNextIfQueueNotEmpty, which calls
\* processNextMessage again with nothing changed, until the stack is
\* exhausted
processNextMessage(st, resolve) ==
    LET i == getNextUnprocessedMessage(st.serviceQueue)
    IN  IF st.isOnline /\ Len(st.serviceQueue) > 0 /\ i # 0
        THEN [st EXCEPT !.serviceQueue = Sent(@, i),
                        !.requests = @ \cup {Fetch(st.serviceQueue, i, resolve)},
                        !.fetched = @ \cup {[state_seq |-> st.serviceQueue[i].state_seq,
                                             fn |-> st.serviceQueue[i].fn]}]
        ELSE IF resolve.of = "sendRequest" THEN RejectSend(st, resolve.id)
        ELSE [st EXCEPT !.queueErrors = @ \cup {"RangeError"}]

\* processNextIfQueueNotEmpty of the n-th restoreOnline (1290-1306)
processNextIfQueueNotEmpty(st, n) ==
    IF st.isOnline /\ Len(st.serviceQueue) > 0
    THEN processNextMessage(st, RestoreResolve(n))
    ELSE [st EXCEPT !.restorePromise[n] = "resolved"]

\* sendRequest (1106-1131) with serverParamObjectMake (1159-1187), the SDK
\* enabled and in a valid state: a passthru handed in as the parameters
\* overwrites state_seq and state_status.  callbackPriority (827-839) with
\* preprocessEnginesisResult (412-442): a TOKEN_EXPIRED result starts
\* refreshTokenAndReissueRequest (300-332), whose sessionRefresh is a
\* sendRequest, and then falls through to resolve(enginesisResult) at 440,
\* so that the callback of callbackPriority gets the result it was called
\* with.
RECURSIVE sendRequest(_, _, _, _, _), callbackPriority(_, _, _)
sendRequest(st, kind, fn, passthru, origin) ==
    LET seq == st.internalStateSeq + 1
        item == [state_seq |-> IF passthru.given THEN passthru.state_seq ELSE seq,
                 state_status |-> IF passthru.given THEN passthru.state_status ELSE 0,
                 fn |-> fn]
        n == Len(st.sendPromises) + 1
        called == [st EXCEPT
            !.internalStateSeq = seq,
            !.serviceQueue = Append(@, item),
            !.sendPromises = Append(@, [kind |-> kind, assigned |-> item.state_seq,
                                        state |-> "pending", origin |-> origin,
                                        result |-> NoResult])]
    IN  IF st.isOnline
        THEN processNextMessage(called, SendResolve(n))
        ELSE callbackPriority(
                [called EXCEPT !.storedQueue = saveServiceQueue(called.serviceQueue),
                               !.offlineQueued = @ \cup {[state_seq |-> item.state_seq,
                                                       fn |-> fn]}],
                [state_seq |-> item.state_seq, code |-> "OFFLINE", fn |-> fn],
                SendResolve(n))

callbackPriority(st, result, resolve) ==
    LET preprocessed ==
            IF result.code = "TOKEN_EXPIRED" /\ refreshToken # "null"
            THEN sendRequest(st, "refresh", "SessionRefresh", NoPassthru, result)
            ELSE st
    IN  [preprocessed EXCEPT !.microtasks =
            Append(@, [task |-> "callback", result |-> result, resolve |-> resolve])]

\* resolve(updatedEnginesisResult) in the callback of callbackPriority: the
\* drain goes on, or the promise of sendRequest is resolved and, when it is
\* the one of sessionRefresh, its reaction (304-318) is queued
ResolvePromise(st, result, resolve) ==
    IF resolve.of = "restoreOnline"
    THEN processNextIfQueueNotEmpty(st, resolve.id)
    ELSE LET sent == st.sendPromises[resolve.id]
         IN  IF sent.state # "pending" THEN st
             ELSE [st EXCEPT
                    !.sendPromises[resolve.id].state = "resolved",
                    !.sendPromises[resolve.id].result = result,
                    !.microtasks = IF sent.kind = "refresh"
                                   THEN Append(@, [task |-> "reissue",
                                                   result |-> sent.origin,
                                                   resolve |-> resolve])
                                   ELSE @]

\* the variables take the values of the state
Becomes(st) ==
    /\ isOnline' = st.isOnline
    /\ serviceQueue' = st.serviceQueue
    /\ serviceQueueRestored' = st.serviceQueueRestored
    /\ internalStateSeq' = st.internalStateSeq
    /\ storedQueue' = st.storedQueue
    /\ requests' = st.requests
    /\ sendPromises' = st.sendPromises
    /\ restorePromise' = st.restorePromise
    /\ queueErrors' = st.queueErrors
    /\ microtasks' = st.microtasks
    /\ fetched' = st.fetched
    /\ offlineQueued' = st.offlineQueued

QueueInit ==
    /\ isOnline = TRUE
    /\ serviceQueue = <<>>
    /\ serviceQueueRestored = 0
    /\ internalStateSeq = 0
    /\ storedQueue \in PreviousSessions
    /\ requests = {}
    /\ sendPromises = <<>>
    /\ restorePromise = <<>>
    /\ queueErrors = {}
    /\ microtasks = <<>>
    /\ fetched = {}
    /\ offlineQueued = {}
    /\ initCalls = 0
    /\ restoreTimers = 0
    /\ refreshToken = "null"
    /\ serverSession = "valid"

\* the frame of the actions of the SDK
QueueFrame ==
    UNCHANGED <<cfgVars, buildVars, pathVars, copyVars, deployVars, versionVars,
                refreshToken>>

\* no promise callback is waiting: the next task of the event loop may run
Idling == initCalls > 0 /\ microtasks = <<>>

\* init (2323-2351), which the application may call again: restoreServiceQueue,
\* and restoreOnline in 500 ms when it returns true
InitSdk ==
    /\ microtasks = <<>>
    /\ initCalls < MaxInits
    /\ initCalls' = initCalls + 1
    /\ LET restored == restoreServiceQueue(QueueState)
       IN  /\ Becomes(restored)
           /\ restoreTimers' = IF restored.serviceQueueRestored > 0
                               THEN restoreTimers + 1 ELSE restoreTimers
    /\ UNCHANGED serverSession
    /\ QueueFrame

\* restoreOnline (1286-1312)
restoreOnline(st) ==
    LET n == Len(st.restorePromise) + 1
        restored == restoreServiceQueue([st EXCEPT !.isOnline = TRUE])
    IN  processNextIfQueueNotEmpty(
            [restored EXCEPT !.restorePromise = Append(@, "pending")], n)

\* the application calls restoreOnline (2950-2952)
RestoreOnline ==
    /\ Idling
    /\ Len(restorePromise) < MaxRestores
    /\ Becomes(restoreOnline(QueueState))
    /\ UNCHANGED <<initCalls, restoreTimers, serverSession>>
    /\ QueueFrame

\* the timer of init fires
RestoreTimer ==
    /\ Idling
    /\ restoreTimers > 0
    /\ Len(restorePromise) < MaxRestores
    /\ restoreTimers' = restoreTimers - 1
    /\ Becomes(restoreOnline(QueueState))
    /\ UNCHANGED <<initCalls, serverSession>>
    /\ QueueFrame

\* the application calls a service, which calls sendRequest
SendRequest ==
    /\ Idling
    /\ Cardinality({n \in DOMAIN sendPromises : sendPromises[n].kind = "app"})
            < MaxRequests
    /\ Becomes(sendRequest(QueueState, "app", "GameGet", NoPassthru, NoResult))
    /\ UNCHANGED <<initCalls, restoreTimers, serverSession>>
    /\ QueueFrame

\* what the server answers to a request: TOKEN_EXPIRED while the session is
\* expired, and to SessionRefresh a new session or an error
ServerAnswers(r) ==
    IF r.fn = "SessionRefresh" THEN {"", "INVALID_TOKEN"}
    ELSE IF serverSession = "expired" THEN {"TOKEN_EXPIRED"}
    ELSE {""}

\* the fetch of processNextMessage gets a response (1028-1055): the item is
\* taken off the queue, and a status other than 200 is a SERVICE_ERROR result
FetchResponse(r, status, code) ==
    /\ Idling
    /\ r \in requests
    /\ r.stage = "fetch"
    /\ code \in ServerAnswers(r)
    /\ LET removed == removeFromServiceQueue(
                        [QueueState EXCEPT !.requests = @ \ {r}], r.state_seq)
       IN  IF status = 200
           THEN /\ Becomes([removed EXCEPT !.requests =
                        @ \cup {[r EXCEPT !.stage = "json", !.code = code]}])
                /\ serverSession' = IF r.fn = "SessionRefresh" /\ code = ""
                                    THEN "valid" ELSE serverSession
           ELSE /\ Becomes(callbackPriority(removed,
                        [state_seq |-> r.state_seq, code |-> "SERVICE_ERROR",
                         fn |-> r.fn], r.resolve))
                /\ UNCHANGED serverSession
    /\ UNCHANGED <<initCalls, restoreTimers>>
    /\ QueueFrame

\* response.json() settles (1031-1049): the server's result, or a
\* SERVICE_ERROR result when the body is null or does not parse
JsonDone(r, parsed) ==
    /\ Idling
    /\ r \in requests
    /\ r.stage = "json"
    /\ (parsed /\ r.code = "TOKEN_EXPIRED" /\ refreshToken # "null") =>
            Cardinality({n \in DOMAIN sendPromises :
                            sendPromises[n].kind = "refresh"}) < MaxRefreshes
    /\ Becomes(callbackPriority([QueueState EXCEPT !.requests = @ \ {r}],
                [state_seq |-> r.state_seq,
                 code |-> IF parsed THEN r.code ELSE "SERVICE_ERROR",
                 fn |-> r.fn], r.resolve))
    /\ UNCHANGED <<initCalls, restoreTimers, serverSession>>
    /\ QueueFrame

\* the fetch fails (1056-1070): setOffline, an OFFLINE result, and the item
\* stays on the queue
FetchError(r) ==
    /\ Idling
    /\ r \in requests
    /\ r.stage = "fetch"
    /\ Becomes(callbackPriority(setOffline([QueueState EXCEPT !.requests = @ \ {r}]),
                [state_seq |-> r.state_seq, code |-> "OFFLINE", fn |-> r.fn],
                r.resolve))
    /\ UNCHANGED <<initCalls, restoreTimers, serverSession>>
    /\ QueueFrame

\* the first waiting promise callback runs: the callback of callbackPriority
\* (829-838), or the reaction of refreshTokenAndReissueRequest to the promise
\* of sessionRefresh (304-308), which sends the original request again with
\* the passthru of its result as parameters; the passthru holds the
\* state_status the server was sent, or none
RunMicrotask ==
    /\ microtasks # <<>>
    /\ LET task == Head(microtasks)
           st == [QueueState EXCEPT !.microtasks = Tail(@)]
       IN  IF task.task = "callback"
           THEN Becomes(ResolvePromise(st, task.result, task.resolve))
           ELSE \E status \in {0, 1} :
                   Becomes(sendRequest(st, "reissue", task.result.fn,
                                       Passthru(task.result.state_seq, status),
                                       task.result))
    /\ UNCHANGED <<initCalls, restoreTimers, serverSession>>
    /\ QueueFrame

FetchSettles ==
    \E r \in requests :
        \/ \E status \in {200, 500} : \E code \in ServerAnswers(r) :
                FetchResponse(r, status, code)
        \/ FetchError(r)

JsonSettles ==
    \E r \in requests : \E parsed \in BOOLEAN : JsonDone(r, parsed)

\* the SDK in the browser, from the load of the page
InitQueue ==
    /\ BuildIdle
    /\ PathsIdle
    /\ CopyIdle
    /\ DeployIdle
    /\ VersionIdle
    /\ QueueInit

NextQueue ==
    \/ InitSdk
    \/ SendRequest
    \/ RestoreOnline
    \/ RestoreTimer
    \/ FetchSettles
    \/ JsonSettles
    \/ RunMicrotask

SpecQueue == InitQueue /\ [][NextQueue]_vars

\* the SDK with a session that may have expired on the server, and with or
\* without a refresh token; nothing is in localStorage
TokenInit ==
    /\ isOnline = TRUE
    /\ serviceQueue = <<>>
    /\ serviceQueueRestored = 0
    /\ internalStateSeq = 0
    /\ storedQueue = [saved |-> FALSE, queue |-> <<>>]
    /\ requests = {}
    /\ sendPromises = <<>>
    /\ restorePromise = <<>>
    /\ queueErrors = {}
    /\ microtasks = <<>>
    /\ fetched = {}
    /\ offlineQueued = {}
    /\ initCalls = 0
    /\ restoreTimers = 0
    /\ refreshToken \in {"null", "token"}
    /\ serverSession \in {"valid", "expired"}

InitToken ==
    /\ BuildIdle
    /\ PathsIdle
    /\ CopyIdle
    /\ DeployIdle
    /\ VersionIdle
    /\ TokenInit

NextToken ==
    \/ InitSdk
    \/ SendRequest
    \/ FetchSettles
    \/ JsonSettles
    \/ RunMicrotask

SpecToken == InitToken /\ [][NextToken]_vars

----------------------------------------------------------------------------
(* versionUp.js.  A file's contents and a version are sequences of
   characters; positions are counted from 1, so that search gives 0 where
   JavaScript gives -1. *)

filesContainingVersion == <<"package.json", "services/version.php">>

\* the values of --task: not given, the three tasks, and another word
VersionTasks == {"undefined", "major", "minor", "build", "patch"}

\* pieces of the listed files: a version in double and in single quotes, a
\* quoted date, and text that holds no quoted number
DoubleQuoted(v) == <<"\"">> \o v \o <<"\"">>
SingleQuoted(v) == <<"'">> \o v \o <<"'">>
Version129 == <<"1", ".", "2", ".", "9">>
Version090 == <<"0", ".", "9", ".", "0">>
DateText == <<"2", "0", "1", "9", "-", "0", "1", "-", "0", "2">>
KeyText == <<"v", ":">>

\* contents of package.json, a JSON file: its strings are in double quotes
PackageContents ==
    { KeyText \o DoubleQuoted(Version129),
      KeyText \o DoubleQuoted(Version090) \o KeyText,
      DoubleQuoted(DateText) \o KeyText \o DoubleQuoted(Version129),
      DoubleQuoted(DateText),
      KeyText }

\* contents of services/version.php
PhpContents ==
    { KeyText \o SingleQuoted(Version129),
      KeyText \o DoubleQuoted(Version090),
      SingleQuoted(DateText) \o KeyText \o SingleQuoted(Version129),
      KeyText }

IsDigit(c) == c \in {"0", "1", "2", "3", "4", "5", "6", "7", "8", "9"}
IsQuote(c) == c \in {"\"", "'"}

\* how many digits follow one another from position i on
RECURSIVE DigitRun(_, _)
DigitRun(s, i) ==
    IF i > Len(s) THEN 0
    ELSE IF IsDigit(s[i]) THEN 1 + DigitRun(s, i + 1) ELSE 0

\* versionMatch, ["'][0-9]+.[0-9]+.[0-9]+["'] once the string literal is read
\* (a backslash before a dot in a string literal is dropped, so each dot
\* stands for any character): the lengths of the three runs of digits of the
\* matches that start at p
versionMatch(s, p) ==
    IF ~IsQuote(s[p]) THEN {}
    ELSE UNION { UNION { { <<a, b, c>> : c \in
                            {n \in 1..DigitRun(s, p + a + b + 3) :
                                /\ p + a + b + n + 3 <= Len(s)
                                /\ IsQuote(s[p + a + b + n + 3])} }
                         : b \in 1..DigitRun(s, p + a + 2) }
                 : a \in 1..DigitRun(s, p + 1) }

\* the match the regular expression takes at p: each run as long as it can be,
\* the earlier run first
Greedy(s, p) ==
    CHOOSE m \in versionMatch(s, p) :
        \A n \in versionMatch(s, p) :
            \/ m[1] > n[1]
            \/ m[1] = n[1] /\ m[2] > n[2]
            \/ m[1] = n[1] /\ m[2] = n[2] /\ m[3] >= n[3]

MatchEnd(s, p) == p + Greedy(s, p)[1] + Greedy(s, p)[2] + Greedy(s, p)[3] + 3

\* fileContents.search(versionMatch): where the first match starts
search(s) ==
    IF \E p \in 1..Len(s) : versionMatch(s, p) # {}
    THEN CHOOSE p \in 1..Len(s) :
            /\ versionMatch(s, p) # {}
            /\ \A q \in 1..(p - 1) : versionMatch(s, q) = {}
    ELSE 0

\* the text from the character after the match's first quote up to the next
\* double quote, looked for from the second character on; empty when there
\* is no double quote
currentVersion(s) ==
    LET startPos == search(s) + 1
        quotes == {q \in (startPos + 1)..Len(s) : s[q] = "\""}
    IN  IF quotes = {} THEN <<>>
        ELSE SubSeq(s, startPos, (CHOOSE q \in quotes : \A r \in quotes : q <= r) - 1)

\* String.prototype.split(".")
RECURSIVE split(_)
split(s) ==
    IF \A i \in 1..Len(s) : s[i] # "."
    THEN << s >>
    ELSE LET dot == CHOOSE i \in 1..Len(s) :
                        s[i] = "." /\ \A j \in 1..(i - 1) : s[j] # "."
         IN  << SubSeq(s, 1, dot - 1) >> \o split(SubSeq(s, dot + 1, Len(s)))

\* NaN, written as a number that no part of a version is
NaN == -1

DigitChars == <<"0", "1", "2", "3", "4", "5", "6", "7", "8", "9">>
DigitValue(c) == (CHOOSE d \in 1..10 : DigitChars[d] = c) - 1

\* the number the digits of s spell
RECURSIVE NumberOf(_)
NumberOf(s) ==
    IF s = <<>> THEN 0
    ELSE 10 * NumberOf(SubSeq(s, 1, Len(s) - 1)) + DigitValue(s[Len(s)])

\* parseInt(parts[i], 10): the digits the part starts with, NaN when it
\* starts with none or when parts has no such element
parseInt(parts, i) ==
    IF i > Len(parts) THEN NaN
    ELSE LET part == parts[i]
             digits == {n \in 0..Len(part) : \A j \in 1..n : IsDigit(part[j])}
             n == CHOOSE k \in digits : \A l \in digits : l <= k
         IN  IF n = 0 THEN NaN ELSE NumberOf(SubSeq(part, 1, n))

\* n ++, which leaves NaN as it is
Increment(n) == IF n = NaN THEN NaN ELSE n + 1

\* the number as the string concatenation writes it
RECURSIVE toString(_)
toString(n) ==
    IF n = NaN THEN <<"N", "a", "N">>
    ELSE IF n < 10 THEN << DigitChars[n + 1] >>
    ELSE toString(n \div 10) \o << DigitChars[(n % 10) + 1] >>

\* setParameters (27-50): the task is build when --task is not given
setParameters(task) == IF task = "undefined" THEN "build" ELSE task

\* versionUp 75-98: the next version from the current one
NextVersionOf(task, current) ==
    LET parts == split(current)
        major == parseInt(parts, 1)
        minor == parseInt(parts, 2)
        buildNumber == parseInt(parts, 3)
        next == CASE task = "major" -> <<Increment(major), 0, 0>>
                  [] task = "minor" -> <<major, Increment(minor), 0>>
                  [] task = "build" -> <<major, minor, Increment(buildNumber)>>
                  [] OTHER -> <<major, minor, buildNumber>>
    IN  toString(next[1]) \o <<".">> \o toString(next[2]) \o <<".">>
            \o toString(next[3])

\* fileContent.replace(regExp, "\"" + nextVersion + "\""): the first match
\* gives way to the next version in double quotes
replace(s, next) ==
    SubSeq(s, 1, search(s) - 1) \o DoubleQuoted(next)
        \o SubSeq(s, MatchEnd(s, search(s)) + 1, Len(s))

\* the script has run to the end of its synchronous part: setParameters, and
\* versionUp up to its readFile of the first listed file
VersionInit ==
    /\ versionUpdateTask \in {setParameters(t) : t \in VersionTasks}
    /\ versionFiles \in {<<a, b>> : a \in PackageContents, b \in PhpContents}
    /\ versionOriginals = versionFiles
    /\ nextVersion = <<>>
    /\ versionPc = "read"
    /\ versionFilePc = [i \in 1..Len(filesContainingVersion) |-> "none"]

\* the callback of the first readFile (63-133)
VersionUpRead(error) ==
    /\ versionPc = "read"
    /\ IF error
       THEN /\ versionPc' = "readError"
            /\ UNCHANGED <<nextVersion, versionFilePc>>
       ELSE IF search(versionFiles[1]) = 0
       THEN /\ versionPc' = "notFound"
            /\ UNCHANGED <<nextVersion, versionFilePc>>
       ELSE /\ versionPc' = "computed"
            /\ nextVersion' = NextVersionOf(versionUpdateTask,
                                            currentVersion(versionFiles[1]))
            /\ versionFilePc' = [i \in DOMAIN versionFilePc |-> "read"]
    /\ UNCHANGED <<cfgVars, buildVars, pathVars, copyVars, deployVars, queueVars,
                   versionUpdateTask, versionFiles, versionOriginals>>

\* the callback of the readFile of one listed file (103-127)
VersionFileRead(i, error) ==
    /\ versionFilePc[i] = "read"
    /\ versionFilePc' = [versionFilePc EXCEPT ![i] =
            IF error THEN "readError"
            ELSE IF search(versionFiles[i]) > 0 THEN "write"
            ELSE "notFound"]
    /\ UNCHANGED <<cfgVars, buildVars, pathVars, copyVars, deployVars, queueVars,
                   versionUpdateTask, versionFiles, versionOriginals, nextVersion,
                   versionPc>>

\* the writeFile of one listed file ends (110-122)
VersionFileWritten(i, fileError) ==
    /\ versionFilePc[i] = "write"
    /\ IF fileError
       THEN /\ versionFilePc' = [versionFilePc EXCEPT ![i] = "writeError"]
            /\ UNCHANGED versionFiles
       ELSE /\ versionFilePc' = [versionFilePc EXCEPT ![i] = "updated"]
            /\ versionFiles' = [versionFiles EXCEPT ![i] = replace(@, nextVersion)]
    /\ UNCHANGED <<cfgVars, buildVars, pathVars, copyVars, deployVars, queueVars,
                   versionUpdateTask, versionOriginals, nextVersion, versionPc>>

VersionUpReadDone == \E error \in BOOLEAN : VersionUpRead(error)

VersionFileReadDone ==
    \E i \in DOMAIN versionFilePc : \E error \in BOOLEAN : VersionFileRead(i, error)

VersionFileWriteDone ==
    \E i \in DOMAIN versionFilePc : \E fileError \in BOOLEAN :
        VersionFileWritten(i, fileError)

InitVersionUp ==
    /\ BuildIdle
    /\ PathsIdle
    /\ CopyIdle
    /\ DeployIdle
    /\ QueueIdle
    /\ VersionInit

NextVersionUp ==
    \/ VersionUpReadDone
    \/ VersionFileReadDone
    \/ VersionFileWriteDone

SpecVersionUp == InitVersionUp /\ [][NextVersionUp]_vars

----------------------------------------------------------------------------
(* The claims *)

\* the files of the image batch whose per-file work has started and has not
\* finished: in ImageMin, or waiting for the stat that records their sizes
InFlight == {f \in Images : imgFile[f] \in {"imagemin", "stat"}}

\* C1: in the image batch, at every moment at most numberOfCPUs files have
\* started their per-file processing and not yet finished it, the stat that
\* records the sizes included.
C1_InFlightAtMostCap == Cardinality(InFlight) <= numberOfCPUs

\* C2: when the summary is printed, compressionStats holds exactly the files
\* that have been processed and the sums of their original and output bytes.
C2_SummaryEqualsProcessed ==
    outcome = "complete" => summary.stats = summary.processed

\* every processor has finished all of its work
AllWorkFinished ==
    /\ \A b \in Bundles : bundle[b] \in {"written", "failed"}
    /\ libs.pc = "resolved" /\ libs.copied = libsToCopy
    /\ img.pc = "finished"

\* C3: 'All builds complete' is logged and the summary printed only after every
\* page bundle has been written or has failed, every library has been copied,
\* the combined library written, and the image batch completed.
C3_SummaryAfterAllWork == outcome = "complete" => AllWorkFinished

\* C4: in the image optimization batch, the batch completion callback runs only
\* after the per-file work of every file, its stat callback included, is over.
C4_CompletionAfterEveryStat ==
    (OptimizeMode /\ img.pc = "finished") =>
        \A f \in Images : imgFile[f] \in {"done", "statError"}

\* the value the spec gives a property: the flag, else the file, else the default
Resolved(p) ==
    IF p \in DOMAIN cliFlags THEN cliFlags[p]
    ELSE IF configFile.kind = "object" /\ p \in DOMAIN configFile.data
    THEN configFile.data[p]
    ELSE DefaultConfiguration[p]

ConfigurationResolved == cfgPc \in {"resolved", "building"}

\* C5: every configurable property resolves to the command line's value when
\* the flag is given, else to the file's value when the file defines it, else
\* to the built-in default.
C5_CliOverFileOverDefault ==
    ConfigurationResolved =>
        \A p \in configurableProperties : configuration[p] = Resolved(p)

\* C6: with no config file and no flag, optimizeImages is true and jsDestination
\* is "./distrib/js"; a property given by neither keeps its built-in default.
C6_DefaultsOnly ==
    (ConfigurationResolved /\ DOMAIN cliFlags = {} /\ configFile.kind = "missing") =>
        /\ configuration.optimizeImages = "true"
        /\ configuration.jsDestination = "./distrib/js"
        /\ \A p \in configurableProperties : configuration[p] = DefaultConfiguration[p]

\* C7: with a missing or malformed config file an error is logged, the result
\* is the command line's flags over the built-in defaults, and the promise
\* resolves (the chain never ends in a throw).
C7_FailsSoft ==
    configFile.kind \in {"missing", "malformed"} =>
        /\ cfgPc # "threw"
        /\ ConfigurationResolved =>
              /\ cfgErrors # {}
              /\ \A p \in configurableProperties :
                    configuration[p] = IF p \in DOMAIN cliFlags THEN cliFlags[p]
                                       ELSE DefaultConfiguration[p]

\* C8: in the image processor a failing stat or I/O on one file is logged, the
\* file adds nothing to the counters, the other files are still processed and
\* the batch completes: its promise is not rejected.
C8_FileFailureKeepsBatch ==
    /\ \A f \in Images : imgFile[f] = "statError" => <<"fstat error", f>> \in errors
    /\ promise.images # "rejected"
    /\ (img.pc = "finished" /\ InFlight = {}) => \A f \in Images : imgFile[f] # "idle"

\* C9: when the minification of one page bundle throws or rejects, the error is
\* logged and no output is written for that bundle, and every other bundle of
\* the manifest is still minified and written: a bundle whose compression has
\* started has an output exactly when its own minify and write succeeded, and
\* while it waits for minify nothing another bundle did keeps it from being
\* written.
C9_MinifyFailureIsLocal ==
    \A b \in Bundles :
        /\ bundle[b] = "failed" =>
              /\ <<"completeJSCompression Compress error", b>> \in errors
              /\ \A w \in jsWrites : w[1] # b
        /\ bundle[b] = "written" <=> <<b, packageName(pageManifest[b])>> \in jsWrites
        /\ (outcome # "none" /\ b \in StartedBundles) => bundle[b] # "none"
        /\ (bundle[b] = "minify" /\ crashed = "no") =>
              ENABLED completeJSCompression(b, "ok")

\* one bundle failed in minify and a later one of the manifest was written
C9_Witness ==
    \E b, c \in Bundles : b < c /\ bundle[b] = "failed" /\ bundle[c] = "written"

\* C10: no failure of a per-file or per-bundle operation ends the process with
\* an uncaught exception or an unhandled rejection.
C10_NoCrash == crashed = "no"

\* the batch has its final outcome: runBuild's then or catch has run
FinalOutcome == outcome \in {"complete", "failed"}

\* C11: every build run reaches a final outcome: once no callback of the
\* build is left to run and the process has not died, Promise.all has settled
\* and runBuild has printed the summary or logged the failure, so that no
\* processor's promise is still pending.
C11_QuiescentIsFinal ==
    (outcome # "none" /\ crashed = "no" /\ ~ENABLED NextShipped) =>
        /\ FinalOutcome
        /\ \A k \in DOMAIN promise : promise[k] # "pending"

\* runBuild's catch has logged the batch failure, and showStats has printed
SummaryPrinted == outcome = "complete"

FailureLogged == <<"probably unhandled error", 0>> \in errors

\* C12: when a processor's promise rejects, runBuild logs the failure and
\* still prints the summary.
C12_FailureStillPrintsSummary ==
    (\E k \in DOMAIN promise : promise[k] = "rejected") =>
        /\ FailureLogged
        /\ SummaryPrinted

\* C13: optimizeJSLibs resolves only after every library of libsToCopy has been
\* copied and counted and the combined library written, and the combine step
\* starts only after the copy step is complete.
C13_CopyBeforeCombine ==
    /\ promise.libs = "resolved" => (libs.copied = libsToCopy /\ libs.pc = "resolved")
    /\ libs.pc \in {"minify", "resolved"} => libs.copied = libsToCopy

\* a bundle as C14 takes it: every member file on disk, not ignored, not empty
WellFormed(list) ==
    \A i \in 1..Len(list) :
        list[i] \notin jsFilesToIgnore /\ ~JSMissing(list[i]) /\ JSSize(list[i]) > 0

TotalMembers == SeqSum([b \in Bundles |-> Len(pageManifest[b])])

\* what optimizeJS has added to totalFiles: the counter less what the library
\* copies, the library reads and the image batch have added
JSFilesCounted ==
    compressionStats.totalFiles
        - Cardinality(libs.copied) - libs.read - img.flushed.totalFiles

\* the output files the page bundles have written
OutputFiles == {w[2] : w \in jsWrites}

CompressionsFinished ==
    outcome # "none" /\ \A b \in Bundles : bundle[b] \in {"written", "failed"}

\* C14 as stated: for a manifest of K well-formed bundles, once optimizeJS and
\* all bundle compressions have finished, exactly K output files have been
\* written and totalFiles has grown by the number of member files.
C14_OneOutputPerBundle ==
    ((\A b \in Bundles : WellFormed(pageManifest[b])) /\ CompressionsFinished) =>
        /\ Cardinality(OutputFiles) = Len(pageManifest)
        /\ JSFilesCounted = TotalMembers

\* C14 as amended: for a manifest of K well-formed bundles optimizeJS adds the
\* number of member files to totalFiles, and once all compressions have
\* finished the output files are exactly those of the bundles whose minify and
\* write succeeded, each named from its bundle's last member file; they are K
\* files when all succeeded and the last members have K different names.
C14_OutputPerWrittenBundle ==
    ((\A b \in Bundles : WellFormed(pageManifest[b])) /\ outcome # "none") =>
        /\ JSFilesCounted = TotalMembers
        /\ CompressionsFinished =>
              /\ OutputFiles =
                    {MinName(pageManifest[b][Len(pageManifest[b])]) :
                        b \in {c \in Bundles : bundle[c] = "written"}}
              /\ ( /\ \A b \in Bundles : bundle[b] = "written"
                   /\ \A b, c \in Bundles :
                         b # c => pageManifest[b][Len(pageManifest[b])]
                                    # pageManifest[c][Len(pageManifest[c])] )
                 => Cardinality(OutputFiles) = Len(pageManifest)

\* two well-formed bundles with different last members, both written
C14_Witness ==
    /\ Len(pageManifest) = 2
    /\ \A b \in Bundles : WellFormed(pageManifest[b]) /\ bundle[b] = "written"
    /\ Cardinality(OutputFiles) = 2
    /\ JSFilesCounted = 4

RECURSIVE LibBytes(_)
LibBytes(S) ==
    IF S = {} THEN 0
    ELSE LET file == CHOOSE x \in S : TRUE IN LibSize(file) + LibBytes(S \ {file})

\* the increments the handlers have applied so far, read off what each
\* processor has done: the files optimizeJS read and the bundles it wrote, the
\* libraries copied, read and combined, and what the image batch handed over
IncrementsApplied ==
    [totalFiles |->
        (IF outcome = "none" THEN 0 ELSE optimizeJSStats.totalFiles)
        + Cardinality(libs.copied) + libs.read + img.flushed.totalFiles,
     totalBytesConsidered |->
        (IF outcome = "none" THEN 0 ELSE optimizeJSStats.totalBytesConsidered)
        + LibBytes(libs.copied) + CombineBytes(libs.read)
        + img.flushed.totalBytesConsidered,
     totalBytesCompressed |->
        SeqSum([b \in Bundles |-> IF bundle[b] = "written"
                                  THEN MinifiedSize(PreparedBytes(pageManifest[b]))
                                  ELSE 0])
        + LibBytes(libs.copied)
        + (IF libs.pc = "resolved" THEN MinifiedSize(CombineBytes(libs.read)) ELSE 0)
        + img.flushed.totalBytesCompressed]

\* C15: the three counters of compressionStats only grow, by non-negative
\* amounts, and under every interleaving of the callbacks no increment is lost
\* or overwritten: each counter is the sum of the increments applied to it.
C15_NoLostIncrement ==
    /\ [](compressionStats = IncrementsApplied)
    /\ [][ /\ compressionStats'.totalFiles >= compressionStats.totalFiles
           /\ compressionStats'.totalBytesConsidered >= compressionStats.totalBytesConsidered
           /\ compressionStats'.totalBytesCompressed >= compressionStats.totalBytesCompressed
         ]_vars

\* two processors have added to the counters in turn: the libraries have been
\* copied and combined after the image batch handed over files of its own,
\* and a page bundle has been written
C15_Witness ==
    /\ img.pc = "finished" /\ img.flushed.totalFiles > 0
    /\ libs.pc = "resolved" /\ libs.copied = libsToCopy
    /\ \E b \in Bundles : bundle[b] = "written"
    /\ compressionStats.totalFiles > optimizeJSStats.totalFiles + libs.read

\* s starts with the characters of p
IsPrefix(p, s) == Len(p) <= Len(s) /\ SubSeq(s, 1, Len(p)) = p

\* C16: the destination computed for a file below the image source root lies
\* under the image destination root and is the destination root joined with
\* the file's path relative to the source root, whatever the form of the
\* configured source root.
C16_DestinationMirrorsSource ==
    pathPc \in {"optimizeImages", "copyImages"} =>
        /\ destinationFile = join(destinationPath, relativePath)
        /\ IsPrefix(normalize(destinationPath) \o <<"/">>, destinationFile)

\* C17: after the image copy has been run twice on an unchanged source tree,
\* the second run has succeeded, although the directories and files were
\* there already, and the destination tree holds the same files with the same
\* bytes as after the first run.
C17_SecondRunSameTree ==
    (copyRun = 2 /\ RunEnded) =>
        /\ crashed = "no"
        /\ promise.images = "resolved"
        /\ destDirs = firstRun.dirs
        /\ destFiles = firstRun.files

\* rsync has been started
Deployed == deployPc \in {"executing", "failed", "dryRunComplete", "deployComplete"}

DeployResolved(k) ==
    LET given == {o \in DOMAIN deployArgs : PropertyOf(o) = k}
    IN  IF given # {} THEN deployArgs[CHOOSE o \in given : TRUE]
        ELSE IF deployFile.kind = "object" /\ k \in DOMAIN deployFile.data
        THEN deployFile.data[k]
        ELSE configurationDefault[k]

\* C19: in deploy's merge every option takes the command line's value when it
\* is given, else the configuration file's value when the file sets it, else
\* the default; isDryRun is one of them.
C19_DeployCliOverFileOverDefault ==
    Deployed =>
        \A k \in DOMAIN configurationDefault :
            Get(deployConfiguration, k) = DeployResolved(k)

\* C20: the promise restoreOnline returned resolves once every request that
\* was issued has succeeded or failed: when restoreOnline has been called and
\* no request is in flight any more, the promise is resolved, also when
\* sendRequest was called while the queue was being drained.
C20_RestoreOnlineResolves ==
    (requests = {} /\ microtasks = <<>>) =>
        \A n \in DOMAIN restorePromise : restorePromise[n] = "resolved"

\* the version strings of a file as the header of versionUp.js describes
\* them, #.#.# in quotes: the lengths of the three numbers of the one at p
VersionStringAt(s, p) ==
    {m \in versionMatch(s, p) :
        s[p + m[1] + 1] = "." /\ s[p + m[1] + m[2] + 2] = "."}

HasVersionString(s) == \E p \in 1..Len(s) : VersionStringAt(s, p) # {}

FirstVersionString(s) ==
    CHOOSE p \in 1..Len(s) :
        /\ VersionStringAt(s, p) # {}
        /\ \A q \in 1..(p - 1) : VersionStringAt(s, q) = {}

\* the numbers a, b, c of the first version string of a file
VersionNumbers(s) ==
    LET p == FirstVersionString(s)
        m == CHOOSE n \in VersionStringAt(s, p) : TRUE
    IN  << NumberOf(SubSeq(s, p + 1, p + m[1])),
           NumberOf(SubSeq(s, p + m[1] + 2, p + m[1] + m[2] + 1)),
           NumberOf(SubSeq(s, p + m[1] + m[2] + 3, p + m[1] + m[2] + m[3] + 2)) >>

VersionStringEnd(s) ==
    LET p == FirstVersionString(s)
        m == CHOOSE n \in VersionStringAt(s, p) : TRUE
    IN  p + m[1] + m[2] + m[3] + 3

\* the next version the claim gives for a task and a version a.b.c
ExpectedVersion(task, v) ==
    LET n == CASE task = "major" -> <<v[1] + 1, 0, 0>>
               [] task = "minor" -> <<v[1], v[2] + 1, 0>>
               [] task = "build" -> <<v[1], v[2], v[3] + 1>>
               [] OTHER -> v
    IN  toString(n[1]) \o <<".">> \o toString(n[2]) \o <<".">> \o toString(n[3])

\* the run of versionUp.js is over
VersionUpEnded ==
    \/ versionPc \in {"readError", "notFound"}
    \/ /\ versionPc = "computed"
       /\ \A i \in DOMAIN versionFilePc :
            versionFilePc[i] \in {"readError", "notFound", "updated", "writeError"}

\* the file holds the version v, quoted, where its first version string was
HoldsInPlace(now, before, v) ==
    \E open \in {"\"", "'"} : \E close \in {"\"", "'"} :
        now = SubSeq(before, 1, FirstVersionString(before) - 1)
                \o <<open>> \o v \o <<close>>
                \o SubSeq(before, VersionStringEnd(before) + 1, Len(before))

\* the next version is the one the task gives from the version a.b.c of the
\* first listed file
C21_NextVersionComputed ==
    (versionPc = "computed" /\ HasVersionString(versionOriginals[1])) =>
        nextVersion = ExpectedVersion(versionUpdateTask,
                                      VersionNumbers(versionOriginals[1]))

\* after the run every listed file that was read and holds a version string
\* holds the next version in place of its first version string
C21_FilesHoldNextVersion ==
    (VersionUpEnded /\ versionPc = "computed") =>
        \A i \in DOMAIN versionFilePc :
            (versionFilePc[i] # "readError" /\ HasVersionString(versionOriginals[i]))
                => HoldsInPlace(versionFiles[i], versionOriginals[i], nextVersion)

\* C21: versionUp computes the next version from the version a.b.c found in
\* the first listed file (major: (a+1).0.0, minor: a.(b+1).0, build:
\* a.b.(c+1), any other task: a.b.c), and after the run every listed file in
\* which a version string was found holds that next version in place of its
\* first version string.
C21_VersionUp == C21_NextVersionComputed /\ C21_FilesHoldNextVersion

\* a call of sendRequest while the SDK is offline
OfflineSendRequest ==
    /\ ~isOnline
    /\ Len(sendPromises') = Len(sendPromises) + 1

\* such a call appends the request to the queue, saves the queue, sends
\* nothing and hands an OFFLINE result to the callback of callbackPriority
QueuedOffline ==
    LET n == Len(sendPromises')
        item == serviceQueue'[Len(serviceQueue')]
    IN  /\ Len(serviceQueue') = Len(serviceQueue) + 1
        /\ SubSeq(serviceQueue', 1, Len(serviceQueue)) = serviceQueue
        /\ item.state_seq = sendPromises'[n].assigned
        /\ storedQueue' = [saved |-> TRUE, queue |-> serviceQueue']
        /\ requests' = requests
        /\ fetched' = fetched
        /\ \E i \in DOMAIN microtasks' :
                /\ microtasks'[i].task = "callback"
                /\ microtasks'[i].resolve = SendResolve(n)
                /\ microtasks'[i].result.code = "OFFLINE"
                /\ microtasks'[i].result.state_seq = item.state_seq

\* the SDK is online again and nothing is left to wait for
OnlineAndQuiet == isOnline /\ requests = {} /\ microtasks = <<>>

OfflineRequestsAreQueued == [][OfflineSendRequest => QueuedOffline]_vars
QueuedRequestsAreSent == OnlineAndQuiet => offlineQueued \subseteq fetched

\* C22: offline, sendRequest appends the request to the queue, saves the
\* queue, sends nothing and completes with an OFFLINE result; and once the
\* SDK is online again after restoreOnline and every request has come back,
\* each request that was queued offline has been sent to the server.
C22_OfflineQueuedAreSent == OfflineRequestsAreQueued /\ []QueuedRequestsAreSent

\* a call of init, whose only change to the queue is restoreServiceQueue
InitCalled == initCalls' = initCalls + 1

\* C23: restoreServiceQueue sets serviceQueueRestored to the number of items
\* it restored from storage and returns true exactly when there are such
\* items, so that init sets the timer of restoreOnline exactly when the
\* saved queue was not empty.
C23_InitSchedulesRestore ==
    [][InitCalled =>
        /\ serviceQueueRestored' = Len(serviceQueue')
        /\ (restoreTimers' = restoreTimers + 1) <=> (Len(serviceQueue') > 0)]_vars

\* the promises of the requests of the application, of SessionRefresh, and
\* of the requests sent again
PromisesOf(kind) == {n \in DOMAIN sendPromises : sendPromises[n].kind = kind}

\* the SessionRefresh that the TOKEN_EXPIRED result of promise n started
RefreshesFor(n) ==
    {m \in PromisesOf("refresh") :
        /\ sendPromises[m].state = "resolved"
        /\ sendPromises[m].origin.state_seq = sendPromises[n].assigned
        /\ sendPromises[m].origin.code = "TOKEN_EXPIRED"}

Reissued(m) ==
    \E k \in PromisesOf("reissue") : sendPromises[k].origin = sendPromises[m].origin

\* C24: when the response of a request is TOKEN_EXPIRED, a refresh token is
\* there and SessionRefresh succeeds, the request is sent again and the
\* caller is not given the TOKEN_EXPIRED result.
C24_ReissuedResultDelivered ==
    microtasks = <<>> =>
        \A n \in PromisesOf("app") : \A m \in RefreshesFor(n) :
            (refreshToken # "null" /\ sendPromises[m].result.code = "") =>
                /\ Reissued(m)
                /\ sendPromises[n].state = "resolved" =>
                        sendPromises[n].result.code # "TOKEN_EXPIRED"

\* the results a promise of the application was resolved with
Delivered(n) == sendPromises[n].state = "resolved"

\* C25: when the response of a request is TOKEN_EXPIRED and there is no
\* refresh token, or SessionRefresh comes back with an error result, the
\* request is not sent again and the caller is given the TOKEN_EXPIRED result.
C25_NoReissueWithoutRefresh ==
    microtasks = <<>> =>
        /\ refreshToken = "null" =>
                /\ PromisesOf("refresh") = {}
                /\ PromisesOf("reissue") = {}
        /\ \A n \in PromisesOf("app") : \A m \in RefreshesFor(n) :
                sendPromises[m].result.code # "" =>
                    /\ ~Reissued(m)
                    /\ Delivered(n) => sendPromises[n].result.code = "TOKEN_EXPIRED"

\* C26: the promise of a sendRequest call is completed with the result of
\* the request that call made: the state_seq of the result is the state_seq
\* the request was given.
C26_ResultOfSameRequest ==
    \A n \in DOMAIN sendPromises :
        sendPromises[n].state = "resolved" =>
            sendPromises[n].result.state_seq = sendPromises[n].assigned

====
